---- MODULE Spec2Model ----
(***************************************************************************)
(* Model of the session store (discord_session_manager.py), the message    *)
(* handling path of the bot (discord_bot.py), the agent loop and the       *)
(* service pool (calendar_assistant_service.py, calendarassistantpro.py),  *)
(* the registry of backends (mcp_orchestrator_pro.py) and the permission   *)
(* checks of the security manager (discord_security.py).                   *)
(*                                                                         *)
(* Time is counted in whole ticks of the clock read by datetime.now().     *)
(* The timeouts and capacities are constructor parameters of the program;  *)
(* the model runs them at small values.                                    *)
(***************************************************************************)
EXTENDS Integers, Sequences, FiniteSets, TLC

\* ------------------------------------------------------------------ bounds
MaxTime == 3
max_sessions == 2
rate_limit_requests == 2
rate_limit_window == 1
session_timeout == 2
cleanup_interval == 1
conversation_flow_timeout == 1
cleanup_conversation_timeout == 1
max_iterations == 2
MaxBatch == 2
MaxPending == 1
history_window == 4
MaxTools == 2
MaxNameLen == 3
MaxDays == 1
MaxIdle == 3
max_instances == 2
MaxCalls == 2
pool_timeout == 2
MaxHandlers == 2
MaxTurns == 3
attempts_limit == 2
attempts_window == 2
rate_limited_for == 2
restricted_for == 3
MaxChecks == 3

\* timedelta.seconds is the seconds component of a duration: days are dropped
SecondsPerDay == 86400

Users == {"u1", "u2", "u3"}
TextChannels == {"c1", "c2"}
DM == "dm"
Threads == {"t1"}
Channels == TextChannels \cup {DM} \cup Threads
None == "None"
NoTime == -1
NoEvent == [op |-> "none"]
Histories == {<< >>, <<"m1", "m2", "m3">>}
StoreChannels == {"c1", DM}

VARIABLES
    now,             \* the clock: datetime.now()
    sessions,        \* DiscordSessionManager._sessions, in dict (insertion) order
    active_threads,  \* DiscordSessionManager._active_threads
    is_running,      \* DiscordSessionManager._is_running
    sweep_due,       \* the time the sleep of _cleanup_loop ends
    ev,              \* the last operation performed and what it returned
    window_admits,   \* per identity: calls admitted since its window boundary was set
    turns,           \* per identity: turns admitted since the first of its window
    pending,         \* the handlers awaiting process_message, in order of arrival
    \* one call of CalendarAssistantService.process_message
    pc,                    \* where the call stands
    conversation_history,  \* self._assistant.conversation_history
    phase,                 \* "first": the first response, "follow": the while loop
    iteration,             \* the loop counter
    messages,              \* what the last provider request carried
    message_obj,           \* the tool calls of the provider's last response
    tasks,                 \* the coroutines asyncio.gather runs for them
    tool_messages,         \* what _execute_tool_calls returned
    final_response,        \* the answer the call returns
    round_trips,           \* provider requests issued by this call
    since_append,          \* provider requests issued since the last batch was appended
    failure,               \* what raised into the except clause, if anything
    \* MCPOrchestratorPro
    clients,               \* self._clients: the connected servers, in dict order
    gmail_http_client,     \* self._gmail_http_client is not None
    attempts,              \* connection attempts __aenter__ has made
    rev,                   \* the last call to the registry and its outcome
    \* CalendarAssistantServicePool
    services,              \* self._services: the identities served, in dict order
    last_used,             \* self._last_used: identity and time, in dict order
    in_flight,             \* the calls of get_service under way, where each stands
    pool_sweep,            \* _cleanup_loop: where it stands and what it has listed
    stopping,              \* stop() of the pool: where it stands in its loop
    pev,                   \* the last step of the pool and its outcome
    \* the message handlers and the CalendarAssistantService they share
    lists,                 \* the history lists there are, by identity of object
    assistant_history,     \* self._assistant.conversation_history: one of lists
    session_history,       \* session.conversation_history of each identity: one of lists
    handlers,              \* the handlers awaiting inside process_message
    tev,                   \* the last return of process_message
    \* SecurityManager
    permissions,           \* self._user_permissions: of each user, what is modelled
    failed_attempts,       \* self._failed_attempts: the times listed for each user
    rate_limits,           \* self._rate_limits: the next allowed time of each user
    suspicious_activity,   \* self._suspicious_activity
    checks,                \* the times of the user's permission checks in the window
    sev                    \* the last permission check and its answer

storevars == <<now, sessions, active_threads, is_running, sweep_due, ev,
               window_admits, turns, pending>>
loopvars == <<pc, conversation_history, phase, iteration, messages, message_obj, tasks,
              tool_messages, final_response, round_trips, since_append, failure>>
regvars == <<clients, gmail_http_client, attempts, rev>>
poolvars == <<services, last_used, in_flight, pool_sweep, stopping, pev>>
svcvars == <<lists, assistant_history, session_history, handlers, tev>>
secvars == <<permissions, failed_attempts, rate_limits, suspicious_activity, checks, sev>>
vars == <<storevars, loopvars, regvars, poolvars, svcvars, secvars>>
ghost == <<window_admits, turns>>

\* ------------------------------------------------------- the session dict
Has(S, u) == \E i \in 1..Len(S) : S[i].user_id = u
Idx(S, u) == CHOOSE i \in 1..Len(S) : S[i].user_id = u
Lookup(S, u) == S[Idx(S, u)]
Store(S, s) == IF Has(S, s.user_id) THEN [S EXCEPT ![Idx(S, s.user_id)] = s]
               ELSE Append(S, s)
Pop(S, u) == SelectSeq(S, LAMBDA s : s.user_id # u)
Ids(S) == {S[i].user_id : i \in 1..Len(S)}

\* ------------------------------------------------------------ UserSession
NewSessionActive(u, c, dm) ==
    [user_id |-> u, channel_id |-> c, is_dm |-> dm,
     conversation_history |-> << >>, last_activity |-> now,
     thread_id |-> None, rate_limit_count |-> 0, rate_limit_reset |-> now,
     conversation_active |-> TRUE, conversation_started_at |-> now]

NewSession(u, c, dm) ==
    [user_id |-> u, channel_id |-> c, is_dm |-> dm,
     conversation_history |-> << >>, last_activity |-> now,
     thread_id |-> None, rate_limit_count |-> 0, rate_limit_reset |-> now,
     conversation_active |-> FALSE, conversation_started_at |-> NoTime]

update_activity(s) == [s EXCEPT !.last_activity = now]

Seconds(d) == d % SecondsPerDay

is_expired(s, timeout_seconds) == Seconds(now - s.last_activity) > timeout_seconds

\* UserSession.check_rate_limit: the session after the call and the answer
RateLimitAdmitsAtLimit(count, max_requests) == ~(count > max_requests)

RateLimitAdmits(count, max_requests) == ~(count >= max_requests)

session_check_rate_limit_keeping_count(s, max_requests, window_seconds) ==
    LET r == IF now > s.rate_limit_reset
             THEN [s EXCEPT !.rate_limit_reset = now + window_seconds]
             ELSE s
    IN IF RateLimitAdmits(r.rate_limit_count, max_requests)
       THEN [session |-> [r EXCEPT !.rate_limit_count = @ + 1], result |-> TRUE]
       ELSE [session |-> r, result |-> FALSE]

session_check_rate_limit(s, max_requests, window_seconds) ==
    LET r == IF now > s.rate_limit_reset
             THEN [s EXCEPT !.rate_limit_count = 0,
                            !.rate_limit_reset = now + window_seconds]
             ELSE s
    IN IF RateLimitAdmits(r.rate_limit_count, max_requests)
       THEN [session |-> [r EXCEPT !.rate_limit_count = @ + 1], result |-> TRUE]
       ELSE [session |-> r, result |-> FALSE]

session_start_conversation(s) ==
    update_activity([s EXCEPT !.conversation_active = TRUE,
                              !.conversation_started_at = now])

session_end_and_reset(s) ==
    [s EXCEPT !.conversation_active = FALSE, !.conversation_started_at = NoTime,
              !.conversation_history = << >>]

session_end_conversation(s) ==
    [s EXCEPT !.conversation_active = FALSE, !.conversation_started_at = NoTime]

session_is_conversation_expired(s, timeout_seconds) ==
    IF ~s.conversation_active \/ s.conversation_started_at = NoTime
    THEN FALSE
    ELSE Seconds(now - s.last_activity) > timeout_seconds

\* --------------------------------------------------- DiscordSessionManager
\* The operations take and give the pair of the session dict and the thread set.
Mgr(S, T) == [sessions |-> S, active_threads |-> T]

remove_session(M, u) ==
    IF Has(M.sessions, u)
    THEN LET s == Lookup(M.sessions, u)
         IN Mgr(Pop(M.sessions, u),
                IF s.thread_id # None THEN M.active_threads \ {s.thread_id}
                ELSE M.active_threads)
    ELSE M

FirstInsertedUser(S) == S[1].user_id

\* min(items, key=last_activity): the first of the least in dict order
OldestUser(S) ==
    LET i == CHOOSE k \in 1..Len(S) :
                 /\ \A j \in 1..Len(S) : S[k].last_activity <= S[j].last_activity
                 /\ \A j \in 1..(k - 1) : S[j].last_activity > S[k].last_activity
    IN S[i].user_id

remove_oldest_session(M) ==
    IF Len(M.sessions) = 0 THEN M ELSE remove_session(M, OldestUser(M.sessions))

OverSessionLimit(n) == n > max_sessions

AtSessionLimit(n) == n >= max_sessions

\* the limit tested before the lookup
get_or_create_session_limit_first(M, u, c, dm) ==
    LET R == IF AtSessionLimit(Len(M.sessions)) THEN remove_oldest_session(M)
             ELSE M
    IN IF Has(R.sessions, u)
       THEN LET s == update_activity(Lookup(R.sessions, u))
            IN Mgr(Store(R.sessions, [s EXCEPT !.channel_id = c, !.is_dm = dm]),
                   R.active_threads)
       ELSE Mgr(Store(R.sessions, NewSession(u, c, dm)), R.active_threads)

get_or_create_session(M, u, c, dm) ==
    IF Has(M.sessions, u)
    THEN LET s == update_activity(Lookup(M.sessions, u))
             t == IF s.channel_id # c
                  THEN [s EXCEPT !.channel_id = c, !.is_dm = dm]
                  ELSE s
         IN Mgr(Store(M.sessions, t), M.active_threads)
    ELSE LET R == IF AtSessionLimit(Len(M.sessions)) THEN remove_oldest_session(M)
                  ELSE M
         IN Mgr(Store(R.sessions, NewSession(u, c, dm)), R.active_threads)

get_session(M, u) ==
    IF Has(M.sessions, u)
    THEN Mgr(Store(M.sessions, update_activity(Lookup(M.sessions, u))),
             M.active_threads)
    ELSE M

update_conversation_history(M, u, h) ==
    IF Has(M.sessions, u)
    THEN Mgr(Store(M.sessions,
                   update_activity([Lookup(M.sessions, u)
                                       EXCEPT !.conversation_history = h])),
             M.active_threads)
    ELSE M

set_thread_id(M, u, t) ==
    IF Has(M.sessions, u)
    THEN Mgr(Store(M.sessions, [Lookup(M.sessions, u) EXCEPT !.thread_id = t]),
             M.active_threads \cup {t})
    ELSE M

\* check_rate_limit: a user without a session is let through uncounted
check_rate_limit(M, u) ==
    IF ~Has(M.sessions, u)
    THEN [m |-> M, result |-> TRUE]
    ELSE LET r == session_check_rate_limit(Lookup(M.sessions, u),
                                           rate_limit_requests, rate_limit_window)
         IN [m |-> Mgr(Store(M.sessions, r.session), M.active_threads),
             result |-> r.result]

start_conversation(M, u) ==
    IF Has(M.sessions, u)
    THEN Mgr(Store(M.sessions, session_start_conversation(Lookup(M.sessions, u))),
             M.active_threads)
    ELSE M

end_conversation(M, u) ==
    IF Has(M.sessions, u)
    THEN Mgr(Store(M.sessions, session_end_conversation(Lookup(M.sessions, u))),
             M.active_threads)
    ELSE M

is_conversation_active(M, u) ==
    IF ~Has(M.sessions, u) THEN FALSE ELSE Lookup(M.sessions, u).conversation_active

is_conversation_expired(M, u, timeout_seconds) ==
    IF ~Has(M.sessions, u) THEN FALSE
    ELSE session_is_conversation_expired(Lookup(M.sessions, u), timeout_seconds)

\* cleanup_thread: the first session in dict order that holds the thread
cleanup_thread(M, t) ==
    LET S == M.sessions
        hit == {i \in 1..Len(S) : S[i].thread_id = t}
    IN Mgr(IF hit = {} THEN S
           ELSE LET i == CHOOSE k \in hit : \A j \in hit : k <= j
                IN [S EXCEPT ![i].thread_id = None],
           M.active_threads \ {t})

RECURSIVE remove_all(_, _)
remove_all(M, us) ==
    IF us = << >> THEN M ELSE remove_all(remove_session(M, Head(us)), Tail(us))

cleanup_expired_conversations(S, conversation_timeout) ==
    [i \in 1..Len(S) |->
        IF S[i].conversation_active
           /\ session_is_conversation_expired(S[i], conversation_timeout)
        THEN session_end_conversation(S[i])
        ELSE S[i]]

\* one cycle of _cleanup_loop, after its sleep
cleanup_cycle(M) ==
    LET expired == SelectSeq(M.sessions, LAMBDA s : is_expired(s, session_timeout))
        expired_users == [i \in 1..Len(expired) |-> expired[i].user_id]
        R == remove_all(M, expired_users)
    IN Mgr(cleanup_expired_conversations(R.sessions, cleanup_conversation_timeout),
           R.active_threads)

\* the registry as __init__ leaves it
NoRegistry ==
    /\ clients = << >>
    /\ gmail_http_client = FALSE
    /\ attempts = 0
    /\ rev = NoEvent

\* the pool as constructed: empty, its cleanup task not started
NoPool ==
    /\ services = << >>
    /\ last_used = << >>
    /\ in_flight = [i \in 1..MaxCalls |-> [pc |-> "idle", user |-> None, victim |-> None]]
    /\ pool_sweep = [pc |-> "off", queue |-> << >>, due |-> 0]
    /\ stopping = [pc |-> "off", at |-> 0, size |-> 0]
    /\ pev = NoEvent

\* the identities that write to the bot while it answers
TurnUsers == {"u1", "u2"}

NoHandler == [pc |-> "idle", user |-> None, turn |-> 0, read |-> << >>, iteration |-> 0]

\* no message is being handled: each session and the assistant hold an empty
\* list of their own
NoHandlers ==
    /\ lists = << << >>, << >>, << >> >>
    /\ session_history = [u \in TurnUsers |-> IF u = "u1" THEN 1 ELSE 2]
    /\ assistant_history = 3
    /\ handlers = [i \in 1..MaxHandlers |-> NoHandler]
    /\ tev = NoEvent

\* the users whose permissions are checked
SecUsers == {"u1", "u2"}

\* SecurityManager.__init__ without admin users; a user's UserPermissions is
\* created with its defaults at the first use
NoSecurity ==
    /\ permissions = [u \in SecUsers |-> [restricted_until |-> NoTime, total_requests |-> 0]]
    /\ failed_attempts = [u \in SecUsers |-> << >>]
    /\ rate_limits = [u \in SecUsers |-> NoTime]
    /\ suspicious_activity = {}
    /\ checks = [u \in SecUsers |-> << >>]
    /\ sev = NoEvent

\* no call of process_message has been made
NoTurn ==
    /\ pc = "idle"
    /\ conversation_history = << >>
    /\ phase = "first"
    /\ iteration = 0
    /\ messages = << >>
    /\ message_obj = << >>
    /\ tasks = << >>
    /\ tool_messages = << >>
    /\ final_response = None
    /\ round_trips = 0
    /\ since_append = 0
    /\ failure = None

\* ------------------------------------------------------------------ actions
M0 == Mgr(sessions, active_threads)

\* a session that is created or removed starts its window count afresh
KeepWindow(S) ==
    [u \in Users |-> IF Has(sessions, u) /\ Has(S, u) THEN window_admits[u] ELSE 0]

\* A handler holds the session object it obtained. While the object is in the
\* dict the handler sees the dict's session; once it is removed the object
\* stays as it was then.
Detach(P, S) ==
    [i \in 1..Len(P) |->
        IF P[i].frozen = << >> /\ ~Has(S, P[i].user)
        THEN [P[i] EXCEPT !.frozen = <<Lookup(sessions, P[i].user)>>]
        ELSE P[i]]

Become(M) == /\ sessions' = M.sessions
             /\ active_threads' = M.active_threads
             /\ window_admits' = KeepWindow(M.sessions)
             /\ turns' = turns
             /\ pending' = Detach(pending, M.sessions)

Tick ==
    /\ now < MaxTime
    /\ now' = now + 1
    /\ ev' = NoEvent
    /\ UNCHANGED <<sessions, active_threads, is_running, sweep_due, ghost, pending, loopvars, regvars, poolvars, svcvars, secvars>>

Start ==
    /\ ~is_running
    /\ is_running' = TRUE
    /\ sweep_due' = now + cleanup_interval
    /\ ev' = NoEvent
    /\ UNCHANGED <<now, sessions, active_threads, ghost, pending, loopvars, regvars, poolvars, svcvars, secvars>>

GetOrCreateSession(u, c) ==
    /\ Become(get_or_create_session(M0, u, c, c = DM))
    /\ ev' = [op |-> "get_or_create", user |-> u,
              created |-> ~Has(sessions, u),
              evicted |-> Ids(sessions) \ Ids(sessions')]
    /\ UNCHANGED <<now, is_running, sweep_due, loopvars, regvars, poolvars, svcvars, secvars>>

GetSession(u) ==
    /\ Become(get_session(M0, u))
    /\ ev' = NoEvent
    /\ UNCHANGED <<now, is_running, sweep_due, loopvars, regvars, poolvars, svcvars, secvars>>

UpdateConversationHistory(u, h) ==
    /\ Become(update_conversation_history(M0, u, h))
    /\ ev' = NoEvent
    /\ UNCHANGED <<now, is_running, sweep_due, loopvars, regvars, poolvars, svcvars, secvars>>

SetThreadId(u, t) ==
    /\ Become(set_thread_id(M0, u, t))
    /\ ev' = NoEvent
    /\ UNCHANGED <<now, is_running, sweep_due, loopvars, regvars, poolvars, svcvars, secvars>>

CleanupThread(t) ==
    /\ Become(cleanup_thread(M0, t))
    /\ ev' = NoEvent
    /\ UNCHANGED <<now, is_running, sweep_due, loopvars, regvars, poolvars, svcvars, secvars>>

RemoveSession(u) ==
    /\ Become(remove_session(M0, u))
    /\ ev' = NoEvent
    /\ UNCHANGED <<now, is_running, sweep_due, loopvars, regvars, poolvars, svcvars, secvars>>

Sweep ==
    /\ is_running
    /\ now >= sweep_due
    /\ Become(cleanup_cycle(M0))
    /\ sweep_due' = now + cleanup_interval
    /\ ev' = NoEvent
    /\ UNCHANGED <<now, is_running, loopvars, regvars, poolvars, svcvars, secvars>>

\* the calls admitted under the boundary the session holds after this call
WindowAfterCheck(u, S, R, result) ==
    LET one == IF result THEN 1 ELSE 0
    IN IF ~Has(S, u) \/ ~Has(R, u) THEN 0
       ELSE IF Lookup(R, u).rate_limit_reset # Lookup(S, u).rate_limit_reset THEN one
       ELSE window_admits[u] + one

\* the window was full and its boundary not yet passed when the call was made
WindowFull(u) ==
    /\ Has(sessions, u)
    /\ window_admits[u] >= rate_limit_requests
    /\ now <= Lookup(sessions, u).rate_limit_reset

CheckRateLimit(u) ==
    LET r == check_rate_limit(M0, u)
    IN /\ sessions' = r.m.sessions
       /\ active_threads' = r.m.active_threads
       /\ window_admits' = [window_admits EXCEPT
                               ![u] = WindowAfterCheck(u, sessions, r.m.sessions, r.result)]
       /\ ev' = [op |-> "check_rate_limit", user |-> u, result |-> r.result,
                 had_session |-> Has(sessions, u), window_full |-> WindowFull(u)]
       /\ UNCHANGED <<now, is_running, sweep_due, turns, pending, loopvars, regvars, poolvars, svcvars, secvars>>

\* ------------------------------------------- CalendarAssistantBot.on_message
\* DiscordConfig defaults
dm_trigger == TRUE
mention_trigger == TRUE
conversation_flow_enabled == TRUE

MessageKinds == {"end", "mention", "plain"}

Answer(M, respond, reply) == [m |-> M, respond |-> respond, reply |-> reply]

FlowingOnChannel(s, ch) == s.channel_id = ch

\* the identity has an active conversation in this channel
Flowing(s, ch) == s.conversation_active /\ s.channel_id = ch

\* _should_respond_to_message: the manager after it, its answer, and its reply
should_respond_to_message(M, u, ch, kind) ==
    IF kind = "end"
    THEN IF is_conversation_active(M, u)
         THEN Answer(end_conversation(M, u), FALSE, "ended")
         ELSE Answer(M, FALSE, "none")
    ELSE IF ch = DM
    THEN Answer(M, dm_trigger, "none")
    ELSE IF mention_trigger /\ kind = "mention"
    THEN IF conversation_flow_enabled
         THEN LET G == get_session(M, u)
              IN Answer(IF Has(G.sessions, u) THEN start_conversation(G, u) ELSE G,
                        TRUE, "none")
         ELSE Answer(M, TRUE, "none")
    ELSE LET G == IF conversation_flow_enabled THEN get_session(M, u) ELSE M
             flowing == /\ conversation_flow_enabled
                        /\ Has(G.sessions, u)
                        /\ Flowing(Lookup(G.sessions, u), ch)
         IN IF flowing
            THEN IF is_conversation_expired(G, u, conversation_flow_timeout)
                 THEN Answer(end_conversation(G, u), FALSE, "expired")
                 ELSE Answer(G, TRUE, "none")
            ELSE IF ch \in Threads
            THEN LET H == get_session(G, u)
                 IN Answer(H, Has(H.sessions, u) /\ Lookup(H.sessions, u).thread_id = ch,
                           "none")
            ELSE Answer(G, FALSE, "none")

\* _check_permissions: allowed_servers is empty by default, every server passes
check_permissions(ch) == TRUE

\* _handle_assistant_message up to the session it obtains
Admission(M, admitted, reply) == [m |-> M, admitted |-> admitted, reply |-> reply]

handle_assistant_message_session_first(M, u, ch) ==
    LET g == get_or_create_session(M, u, ch, ch = DM)
        r == check_rate_limit(g, u)
    IN IF ~r.result THEN Admission(r.m, FALSE, "rate_limited")
       ELSE IF ~check_permissions(ch) THEN Admission(r.m, FALSE, "none")
       ELSE Admission(r.m, TRUE, "none")

handle_assistant_message(M, u, ch) ==
    LET r == check_rate_limit(M, u)
    IN IF ~r.result THEN Admission(r.m, FALSE, "rate_limited")
       ELSE IF ~check_permissions(ch) THEN Admission(r.m, FALSE, "none")
       ELSE Admission(get_or_create_session(r.m, u, ch, ch = DM), TRUE, "none")

on_message(M, u, ch, kind) ==
    LET sr == should_respond_to_message(M, u, ch, kind)
    IN IF ~sr.respond
       THEN [m |-> sr.m, respond |-> FALSE, admitted |-> FALSE, reply |-> sr.reply]
       ELSE LET h == handle_assistant_message(sr.m, u, ch)
            IN [m |-> h.m, respond |-> TRUE, admitted |-> h.admitted, reply |-> h.reply]

\* the turns admitted since the first turn of the identity's window
TurnAdmitted(t) ==
    IF t.start = NoTime \/ now > t.start + rate_limit_window
    THEN [start |-> now, count |-> 1]
    ELSE [t EXCEPT !.count = @ + 1]

\* what the handler found before it acted
Idle(S, u) == now - Lookup(S, u).last_activity

Handler(u, ch) == [user |-> u, channel |-> ch, frozen |-> << >>]

\* counted: the specification keeps the count of the turns it admits;
\* awaited: it follows the handler through its await of process_message
Message(u, ch, kind, counted, awaited) ==
    LET r == on_message(M0, u, ch, kind)
        S == sessions
    IN /\ sessions' = r.m.sessions
       /\ active_threads' = r.m.active_threads
       /\ window_admits' = window_admits
       /\ turns' = [turns EXCEPT
                       ![u] = IF counted /\ r.admitted THEN TurnAdmitted(@) ELSE @]
       /\ ev' = [op |-> "message", user |-> u, channel |-> ch, kind |-> kind,
                 respond |-> r.respond, admitted |-> r.admitted, reply |-> r.reply,
                 had_session |-> Has(S, u),
                 was_flowing |-> /\ Has(S, u)
                                 /\ Lookup(S, u).conversation_active
                                 /\ Lookup(S, u).channel_id = ch,
                 was_idle |-> Has(S, u) /\ Idle(S, u) > conversation_flow_timeout,
                 was_active |-> is_conversation_active(M0, u),
                 in_own_thread |-> Has(S, u) /\ Lookup(S, u).thread_id = ch,
                 history_kept |-> /\ Has(S, u)
                                  /\ Has(r.m.sessions, u)
                                  /\ Lookup(r.m.sessions, u).conversation_history
                                       = Lookup(S, u).conversation_history]
       /\ pending' = IF awaited /\ r.admitted
                     THEN Append(Detach(pending, r.m.sessions), Handler(u, ch))
                     ELSE Detach(pending, r.m.sessions)
       /\ UNCHANGED <<now, is_running, sweep_due, loopvars, regvars, poolvars, svcvars, secvars>>

OnMessage(u, ch, kind) == Message(u, ch, kind, FALSE, FALSE)

OnMessageCounted(u, ch, kind) == Message(u, ch, kind, TRUE, FALSE)

\* health_check_task: ends the conversations that lapsed
HealthCheckTask ==
    /\ Become(Mgr(cleanup_expired_conversations(sessions, conversation_flow_timeout),
                  active_threads))
    /\ ev' = NoEvent
    /\ UNCHANGED <<now, is_running, sweep_due, loopvars, regvars, poolvars, svcvars, secvars>>

\* ------------------------------------------------- the assistant's tool loop
\* A name is the sequence of its pieces: words without underscores, and "_"
\* for each underscore. The delimiter "__" is two underscores in a row.
Delimiter == <<"_", "_">>

\* f"{server}__{bare_name}"
Namespaced(server, bare_name) == server \o Delimiter \o bare_name

CalendarList == Namespaced(<<"calendar">>, <<"list-events">>)
GmailSearch == Namespaced(<<"gmail">>, <<"search", "_", "emails">>)
GmailLabel == Namespaced(<<"gmail">>, <<"add", "_", "label">>)
NotionSearch == Namespaced(<<"notion">>, <<"search">>)
BareList == <<"list-events">>

\* tc.function.arguments as the provider sent it
ArgumentTexts == {"json", "malformed", "empty"}
EmptyArgs == "{}"
GivenArgs == "args"

InClients(server) == \E k \in 1..Len(clients) : clients[k] = server

\* the batches a response may carry, by length
SampleBatches ==
    { <<[name |-> CalendarList, arguments |-> "json"]>>,
      <<[name |-> CalendarList, arguments |-> "empty"],
        [name |-> GmailSearch, arguments |-> "json"]>>,
      <<[name |-> BareList, arguments |-> "json"],
        [name |-> CalendarList, arguments |-> "json"]>>,
      <<[name |-> CalendarList, arguments |-> "json"],
        [name |-> CalendarList, arguments |-> "malformed"]>>,
      <<[name |-> NotionSearch, arguments |-> "json"],
        [name |-> GmailLabel, arguments |-> "json"],
        [name |-> GmailSearch, arguments |-> "empty"]>> }
Batches == {b \in SampleBatches : Len(b) <= MaxBatch}

\* the provider numbers the calls of a response; ids are unique in a turn
WithIds(b, r) ==
    [i \in 1..Len(b) |->
        [id |-> <<r, i>>, name |-> b[i].name, arguments |-> b[i].arguments]]

\* texts
UserText == "message"
AnswerText == "answer"
CompletedText == "Task completed successfully!"
CannedText == "Task completed successfully! Is there anything else I can help you with?"
ApologyText == "I apologize, but I encountered an error while processing your request"
ResultText == "result"
ErrorText == "Error: message"
GmailAuthText == "Gmail authentication required. Please run OAuth authentication first."

Msg(role, content, calls, id, name) ==
    [role |-> role, content |-> content, tool_calls |-> calls,
     tool_call_id |-> id, name |-> name]
NoId == <<0, 0>>
NoName == << >>
UserMessage == Msg("user", UserText, << >>, NoId, NoName)
SystemMessage == Msg("system", "system_prompt", << >>, NoId, NoName)
AssistantMessage(content, calls) == Msg("assistant", content, calls, NoId, NoName)

\* the history handed to process_message: empty, or one earlier exchange
InitialHistories ==
    { << >>, <<UserMessage, AssistantMessage(AnswerText, << >>)>> }

\* json.loads(tc.function.arguments or "{}")
ArgumentsOrEmpty(a) == IF a = "empty" THEN EmptyArgs ELSE a
JsonLoadsRaises(text) == text = "malformed"
json_loads(text) == IF text = EmptyArgs THEN EmptyArgs ELSE GivenArgs

\* fullname.split("__", 1)
DelimiterAt(fullname, i) ==
    /\ i + 1 <= Len(fullname)
    /\ SubSeq(fullname, i, i + 1) = Delimiter
HasDelimiter(fullname) == \E i \in 1..Len(fullname) : DelimiterAt(fullname, i)
FirstDelimiter(fullname) ==
    CHOOSE i \in 1..Len(fullname) :
        /\ DelimiterAt(fullname, i)
        /\ \A j \in 1..(i - 1) : ~DelimiterAt(fullname, j)
ServerOf(fullname) == SubSeq(fullname, 1, FirstDelimiter(fullname) - 1)
BareOf(fullname) == SubSeq(fullname, FirstDelimiter(fullname) + 2, Len(fullname))

GmailTools ==
    {<<"send", "_", "email">>, <<"search", "_", "emails">>, <<"read", "_", "email">>}

\* where call_tool_by_fullname and call_tool take a name: to a ValueError
\* raised before any request is sent, or to a backend
Route(fullname) ==
    IF ~HasDelimiter(fullname) THEN "not_namespaced"
    ELSE IF ServerOf(fullname) = <<"gmail">> /\ gmail_http_client
         THEN IF BareOf(fullname) \in GmailTools THEN "gmail"
              ELSE "unknown_gmail_tool"
    ELSE IF InClients(ServerOf(fullname)) THEN "client"
    ELSE "unknown_server"
Rejected(fullname) ==
    Route(fullname) \in {"not_namespaced", "unknown_gmail_tool", "unknown_server"}

\* how a backend request ends: a result, an exception, or an exception
\* whose text contains "timeout" or "cancelled"
BackendOutcomes == {"ok", "fail", "timeout"}

\* call_tool: what comes back to _call_tool_safely, a value or an exception
call_tool(fullname, outcome) ==
    IF outcome = "ok" THEN [raised |-> FALSE, value |-> ResultText]
    ELSE IF /\ Route(fullname) = "gmail"
            /\ BareOf(fullname) = <<"search", "_", "emails">>
            /\ outcome = "timeout"
         THEN [raised |-> FALSE, value |-> GmailAuthText]
    ELSE [raised |-> TRUE, value |-> None]

ToolMessage(call, content) == Msg("tool", content, << >>, call.id, call.name)

call_tool_unsafely(call, res) == ToolMessage(call, res.value)

call_tool_safely(call, res) ==
    IF res.raised THEN ToolMessage(call, ErrorText)
    ELSE ToolMessage(call, res.value)

\* ------------------------------------------------- the session store alone
Unstarted ==
    /\ now = 0
    /\ sessions = << >>
    /\ active_threads = {}
    /\ is_running = FALSE
    /\ sweep_due = 0
    /\ ev = NoEvent
    /\ window_admits = [u \in Users |-> 0]
    /\ turns = [u \in Users |-> [start |-> NoTime, count |-> 0]]
    /\ pending = << >>

InitStore == Unstarted /\ NoTurn /\ NoRegistry /\ NoPool /\ NoHandlers /\ NoSecurity

NextStore ==
    \/ Tick
    \/ Start
    \/ \E u \in Users, c \in StoreChannels : GetOrCreateSession(u, c)
    \/ \E u \in Users : GetSession(u)
    \/ \E u \in Users : RemoveSession(u)
    \/ Sweep

SpecStore == InitStore /\ [][NextStore]_vars

\* ------------------------------------------------------- the rate limiter
RateUsers == {"u1", "u2"}

NextRate ==
    \/ Tick
    \/ \E u \in RateUsers : GetOrCreateSession(u, "c1")
    \/ \E u \in RateUsers : CheckRateLimit(u)
    \/ \E u \in RateUsers : RemoveSession(u)

SpecRate == InitStore /\ [][NextRate]_vars

\* ------------------------------------------------ the message handling path
BotUsers == {"u1"}

BotChannels == TextChannels \cup {DM}

\* setup_hook has started the session manager before any message arrives
InitBot ==
    /\ now = 0
    /\ sessions = << >>
    /\ active_threads = {}
    /\ is_running = TRUE
    /\ sweep_due = cleanup_interval
    /\ ev = NoEvent
    /\ window_admits = [u \in Users |-> 0]
    /\ turns = [u \in Users |-> [start |-> NoTime, count |-> 0]]
    /\ pending = << >>
    /\ NoTurn
    /\ NoRegistry
    /\ NoPool
    /\ NoHandlers
    /\ NoSecurity

NextBot ==
    \/ Tick
    \/ \E u \in BotUsers, ch \in BotChannels, kind \in MessageKinds :
           OnMessage(u, ch, kind)
    \/ HealthCheckTask
    \/ Sweep

SpecBot == InitBot /\ [][NextBot]_vars

\* ---------------------------------------------- the admission of turns
NextAdmission ==
    \/ Tick
    \/ \E u \in BotUsers, ch \in {"c1", DM}, kind \in {"mention", "plain"} :
           OnMessageCounted(u, ch, kind)
    \/ Sweep

SpecAdmission == InitBot /\ [][NextAdmission]_vars

\* ------------------------------------------ the handler after process_message
use_threads == TRUE

\* what process_message hands back: the exchange alone, or one with tool messages
TurnHistories == {<<"m1", "m2">>, <<"m1", "m2", "m3", "m4">>}

RemoveAt(P, i) == SubSeq(P, 1, i - 1) \o SubSeq(P, i + 1, Len(P))

\* the session object the handler holds
HeldSession(p, S) == IF p.frozen = << >> THEN Lookup(S, p.user) ELSE p.frozen[1]

\* _send_response opens a thread for a long conversation outside direct messages
WantsThread(p, session) ==
    /\ use_threads
    /\ p.channel # DM
    /\ session.thread_id = None
    /\ Len(session.conversation_history) > 2

\* thread ids the platform has not given out
FreshThreads ==
    Threads \ (active_threads \cup {sessions[k].thread_id : k \in 1..Len(sessions)})

\* process_message returns to handler i: the history is stored and the answer
\* sent; created is the thread the platform opens, None when it refuses
Respond(i, h, created) ==
    /\ i \in 1..Len(pending)
    /\ LET p == pending[i]
           U == update_conversation_history(M0, p.user, h)
           opens == WantsThread(p, HeldSession(p, U.sessions))
           R == IF opens /\ created # None THEN set_thread_id(U, p.user, created)
                ELSE U
       IN /\ created # None => (opens /\ created \in FreshThreads)
          /\ sessions' = R.sessions
          /\ active_threads' = R.active_threads
          /\ window_admits' = KeepWindow(R.sessions)
          /\ pending' = RemoveAt(pending, i)
          /\ ev' = [op |-> "respond", user |-> p.user, channel |-> p.channel,
                    thread |-> IF opens THEN created ELSE None]
    /\ UNCHANGED <<now, is_running, sweep_due, turns, loopvars, regvars, poolvars, svcvars, secvars>>

\* get_service or process_message raises: the handler replies with an error
TurnFails(i) ==
    /\ i \in 1..Len(pending)
    /\ pending' = RemoveAt(pending, i)
    /\ ev' = NoEvent
    /\ UNCHANGED <<now, sessions, active_threads, is_running, sweep_due, ghost,
                   loopvars, regvars, poolvars, svcvars, secvars>>

OnMessageAwaited(u, ch, kind) ==
    /\ Len(pending) < MaxPending
    /\ Message(u, ch, kind, FALSE, TRUE)

\* ------------------------------------------------- the conversation flow
FlowChannels == {"c1", DM} \cup Threads

NextFlow ==
    \/ Tick
    \/ \E u \in BotUsers, ch \in FlowChannels, kind \in MessageKinds :
          OnMessageAwaited(u, ch, kind)
    \/ \E i \in 1..MaxPending, h \in TurnHistories, t \in Threads \cup {None} :
          Respond(i, h, t)
    \/ \E i \in 1..MaxPending : TurnFails(i)
    \/ HealthCheckTask
    \/ Sweep

SpecFlow == InitBot /\ [][NextFlow]_vars

\* ---------------------------- CalendarAssistantService.process_message, by step
RaiseDroppingHistory(h, cause) ==
    /\ conversation_history' = <<AssistantMessage(ApologyText, << >>)>>
    /\ final_response' = ApologyText
    /\ failure' = cause
    /\ pc' = "done"

\* the except clause: the apology is appended and returned
Raise(h, cause) ==
    /\ conversation_history' = Append(h, AssistantMessage(ApologyText, << >>))
    /\ final_response' = ApologyText
    /\ failure' = cause
    /\ pc' = "done"

\* the call, up to the await of get_all_tool_specs
ProcessMessage(h) ==
    /\ pc = "idle"
    /\ conversation_history' = Append(h, UserMessage)
    /\ pc' = "specs"
    /\ UNCHANGED <<phase, iteration, messages, message_obj, tasks, tool_messages,
                   final_response, round_trips, since_append, failure>>
    /\ UNCHANGED <<storevars, regvars, poolvars, svcvars, secvars>>

\* get_all_tool_specs returns, or raises: it guards no list_tools call
GetAllToolSpecsReturns(ok) ==
    /\ pc = "specs"
    /\ IF ok
       THEN /\ pc' = "request"
            /\ UNCHANGED <<conversation_history, final_response, failure>>
       ELSE Raise(conversation_history, "tool_specs")
    /\ UNCHANGED <<phase, iteration, messages, message_obj, tasks, tool_messages,
                   round_trips, since_append>>
    /\ UNCHANGED <<storevars, regvars, poolvars, svcvars, secvars>>

\* conversation_history[-10:], the window scaled to the histories of the model
LastMessages(h) ==
    IF Len(h) <= history_window THEN h
    ELSE SubSeq(h, Len(h) - history_window + 1, Len(h))

\* what chat.completions.create does: raises, or answers with a message
\* that carries text, nothing, or tool calls
ProviderResponses ==
    {[kind |-> "raise", content |-> "", calls |-> << >>]}
    \cup {[kind |-> "message", content |-> c, calls |-> << >>] : c \in {AnswerText, ""}}
    \cup {[kind |-> "message", content |-> "", calls |-> b] : b \in Batches}

\* one provider round-trip and the handling of its response, up to the
\* return or to the call of _execute_tool_calls
ProviderRequest(resp) ==
    /\ pc = "request"
    /\ messages' = <<SystemMessage>> \o LastMessages(conversation_history)
    /\ round_trips' = round_trips + 1
    /\ since_append' = since_append + 1
    /\ LET calls == WithIds(resp.calls, round_trips + 1) IN
       IF resp.kind = "raise"
       THEN /\ Raise(conversation_history, "provider")
            /\ UNCHANGED message_obj
       ELSE IF phase = "first"
       THEN /\ conversation_history' =
                Append(conversation_history, AssistantMessage(resp.content, calls))
            /\ final_response' = resp.content
            /\ message_obj' = calls
            /\ pc' = IF calls # << >> THEN "execute" ELSE "done"
            /\ UNCHANGED failure
       ELSE IF calls # << >>
       THEN /\ message_obj' = calls
            /\ pc' = "execute"
            /\ UNCHANGED <<conversation_history, final_response, failure>>
       ELSE /\ conversation_history' =
                Append(conversation_history, AssistantMessage(resp.content, << >>))
            /\ final_response' =
                IF resp.content = "" THEN CompletedText ELSE resp.content
            /\ message_obj' = calls
            /\ pc' = "done"
            /\ UNCHANGED failure
    /\ UNCHANGED <<phase, iteration, tasks, tool_messages>>
    /\ UNCHANGED <<storevars, regvars, poolvars, svcvars, secvars>>

NoMessage == Msg("none", "", << >>, NoId, NoName)
NewTask(call) ==
    [call |-> call, args |-> json_loads(ArgumentsOrEmpty(call.arguments)),
     state |-> "pending", outcome |-> "none", message |-> NoMessage]

\* _execute_tool_calls up to its await: the arguments of every call are
\* parsed while the coroutines are built, before any of them runs
ExecuteToolCalls ==
    /\ pc = "execute"
    /\ IF \E i \in 1..Len(message_obj) :
              JsonLoadsRaises(ArgumentsOrEmpty(message_obj[i].arguments))
       THEN /\ Raise(conversation_history, "arguments")
            /\ tasks' = << >>
       ELSE /\ tasks' = [i \in 1..Len(message_obj) |-> NewTask(message_obj[i])]
            /\ pc' = "gather"
            /\ UNCHANGED <<conversation_history, final_response, failure>>
    /\ UNCHANGED <<phase, iteration, messages, message_obj, tool_messages, round_trips,
                   since_append>>
    /\ UNCHANGED <<storevars, regvars, poolvars, svcvars, secvars>>

\* a coroutine runs to its first suspension: a name the registry rejects
\* raises at once, any other call is sent to its backend
TaskStart(i) ==
    /\ pc = "gather"
    /\ i \in 1..Len(tasks)
    /\ tasks[i].state = "pending"
    /\ LET t == tasks[i] IN
       tasks' = [tasks EXCEPT ![i] =
         IF Rejected(t.call.name)
         THEN [t EXCEPT !.state = "done", !.outcome = "rejected",
                 !.message = call_tool_safely(t.call, [raised |-> TRUE, value |-> None])]
         ELSE [t EXCEPT !.state = "inflight"]]
    /\ UNCHANGED <<pc, conversation_history, phase, iteration, messages, message_obj,
                   tool_messages, final_response, round_trips, since_append, failure>>
    /\ UNCHANGED <<storevars, regvars, poolvars, svcvars, secvars>>

\* the backend answers a call in flight
TaskComplete(i, outcome) ==
    /\ pc = "gather"
    /\ i \in 1..Len(tasks)
    /\ tasks[i].state = "inflight"
    /\ LET t == tasks[i] IN
       tasks' = [tasks EXCEPT ![i] =
         [t EXCEPT !.state = "done", !.outcome = outcome,
            !.message = call_tool_safely(t.call, call_tool(t.call.name, outcome))]]
    /\ UNCHANGED <<pc, conversation_history, phase, iteration, messages, message_obj,
                   tool_messages, final_response, round_trips, since_append, failure>>
    /\ UNCHANGED <<storevars, regvars, poolvars, svcvars, secvars>>

GatherReadyOnFirst(t) == \E i \in 1..Len(t) : t[i].state = "done"

\* asyncio.gather returns when every coroutine has returned
GatherReady(t) == \A i \in 1..Len(t) : t[i].state = "done"

\* gather returns, in call order, and the results enter the history: after
\* the assistant message in the first round, together with it in the loop
GatherReturns ==
    /\ pc = "gather"
    /\ GatherReady(tasks)
    /\ LET results == [i \in 1..Len(tasks) |-> tasks[i].message] IN
       /\ tool_messages' = results
       /\ conversation_history' =
            IF phase = "first"
            THEN conversation_history \o results
            ELSE Append(conversation_history, AssistantMessage("", message_obj))
                 \o results
    /\ iteration' = IF phase = "first" THEN 0 ELSE iteration
    /\ since_append' = 0
    /\ pc' = "loop"
    /\ UNCHANGED <<phase, messages, message_obj, tasks, final_response, round_trips,
                   failure>>
    /\ UNCHANGED <<storevars, regvars, poolvars, svcvars, secvars>>

LoopContinuesInclusive(n) == n <= max_iterations

LoopContinues(n) == n < max_iterations

\* the while test: another follow-up request, or the else clause
LoopTest ==
    /\ pc = "loop"
    /\ IF LoopContinues(iteration)
       THEN /\ iteration' = iteration + 1
            /\ phase' = "follow"
            /\ pc' = "request"
            /\ UNCHANGED final_response
       ELSE /\ final_response' = CannedText
            /\ pc' = "done"
            /\ UNCHANGED <<iteration, phase>>
    /\ UNCHANGED <<conversation_history, messages, message_obj, tasks, tool_messages,
                   round_trips, since_append, failure>>
    /\ UNCHANGED <<storevars, regvars, poolvars, svcvars, secvars>>

\* ------------------------------------------------------- one turn of the loop
NextLoop ==
    \/ \E h \in InitialHistories : ProcessMessage(h)
    \/ \E ok \in BOOLEAN : GetAllToolSpecsReturns(ok)
    \/ \E resp \in ProviderResponses : ProviderRequest(resp)
    \/ ExecuteToolCalls
    \/ \E i \in 1..MaxBatch : TaskStart(i)
    \/ \E i \in 1..MaxBatch, o \in BackendOutcomes : TaskComplete(i, o)
    \/ GatherReturns
    \/ LoopTest

\* the registry the loop runs against: calendar connected, notion not,
\* the mail client connected
InitLoop ==
    /\ Unstarted
    /\ NoTurn
    /\ clients = << <<"calendar">> >>
    /\ gmail_http_client = TRUE
    /\ attempts = 3
    /\ rev = NoEvent
    /\ NoPool
    /\ NoHandlers
    /\ NoSecurity

SpecLoop == InitLoop /\ [][NextLoop]_vars

\* ------------------------------------------------------- MCPOrchestratorPro
\* the servers __aenter__ tries, in its order
ConfiguredServers == << <<"calendar">>, <<"notion">>, <<"gmail">> >>
GenericServers == {<<"calendar">>, <<"notion">>}

ConnectOrGiveUp(ok) ==
    /\ attempts < Len(ConfiguredServers)
    /\ LET server == ConfiguredServers[attempts + 1] IN
       /\ clients' = IF ok /\ server \in GenericServers
                     THEN Append(clients, server) ELSE clients
       /\ gmail_http_client' = IF server = <<"gmail">> THEN ok ELSE gmail_http_client
       /\ rev' = [op |-> "connect", server |-> server, ok |-> ok]
    /\ attempts' = IF ok THEN attempts + 1 ELSE Len(ConfiguredServers)
    /\ UNCHANGED <<storevars, loopvars, poolvars, svcvars, secvars>>

\* one try block of __aenter__: the connection is made, or the failure is
\* printed and the next server is tried
Connect(ok) ==
    /\ attempts < Len(ConfiguredServers)
    /\ LET server == ConfiguredServers[attempts + 1] IN
       /\ clients' = IF ok /\ server \in GenericServers
                     THEN Append(clients, server) ELSE clients
       /\ gmail_http_client' = IF server = <<"gmail">> THEN ok ELSE gmail_http_client
       /\ rev' = [op |-> "connect", server |-> server, ok |-> ok]
    /\ attempts' = attempts + 1
    /\ UNCHANGED <<storevars, loopvars, poolvars, svcvars, secvars>>

\* the tools a backend may list
BackendTools == << <<"list-events">>, <<"search", "_", "emails">>, <<"x", "_", "_", "y">> >>
ToolLists == {SubSeq(BackendTools, 1, n) : n \in 0..MaxTools}

\* how a client's list_tools ends
ListAnswers ==
    {[raised |-> TRUE, tools |-> << >>]}
    \cup {[raised |-> FALSE, tools |-> l] : l \in ToolLists}

ToolSpec(server, bare_name, namespaced) ==
    [server |-> server,
     name |-> IF namespaced THEN Namespaced(server, bare_name) ELSE bare_name,
     bare_name |-> bare_name]

GmailSpecs(namespaced) ==
    [i \in 1..3 |->
        ToolSpec(<<"gmail">>,
                 << <<"send", "_", "email">>, <<"search", "_", "emails">>,
                    <<"read", "_", "email">> >>[i],
                 namespaced)]

GmailListedAlways(g) == TRUE

\* the built-in mail tools are listed when the mail client is there
GmailListed(g) == g

RECURSIVE ClientSpecs(_, _, _)
\* the loop over self._clients.items(), from client k on
ClientSpecs(k, answers, namespaced) ==
    IF k > Len(clients) THEN << >>
    ELSE [i \in 1..Len(answers[k].tools) |->
             ToolSpec(clients[k], answers[k].tools[i], namespaced)]
         \o ClientSpecs(k + 1, answers, namespaced)

\* get_all_tool_specs: a list_tools that raises is not caught
get_all_tool_specs(answers, namespaced) ==
    IF \E k \in 1..Len(clients) : answers[k].raised
    THEN [raised |-> TRUE, specs |-> << >>]
    ELSE [raised |-> FALSE,
          specs |-> ClientSpecs(1, answers, namespaced)
                    \o (IF GmailListed(gmail_http_client) THEN GmailSpecs(namespaced)
                        ELSE << >>)]

GetAllToolSpecs(answers, namespaced) ==
    /\ attempts = Len(ConfiguredServers)
    /\ LET r == get_all_tool_specs(answers, namespaced) IN
       rev' = [op |-> "get_all_tool_specs", raised |-> r.raised, specs |-> r.specs,
               answers |-> answers, namespaced |-> namespaced]
    /\ UNCHANGED <<clients, gmail_http_client, attempts>>
    /\ UNCHANGED <<storevars, loopvars, poolvars, svcvars, secvars>>

ProbedAlways(server) == TRUE

\* list_tools(server) sends a request only to a server it holds a client for
Probed(server) == InClients(server)

\* health_check: answers says whether a probed server answers
health_check(answers) ==
    [health |->
        [s \in GenericServers \cup {<<"gmail">>} |->
            IF s = <<"gmail">> THEN gmail_http_client
            ELSE Probed(s) /\ answers[s]],
     probed |-> {s \in GenericServers : Probed(s)}]

HealthCheck(answers) ==
    /\ attempts = Len(ConfiguredServers)
    /\ LET r == health_check(answers) IN
       rev' = [op |-> "health_check", health |-> r.health, probed |-> r.probed,
               answers |-> answers]
    /\ UNCHANGED <<clients, gmail_http_client, attempts>>
    /\ UNCHANGED <<storevars, loopvars, poolvars, svcvars, secvars>>

NextRegistry ==
    \/ \E ok \in BOOLEAN : Connect(ok)
    \/ \E answers \in [1..Len(clients) -> ListAnswers], namespaced \in BOOLEAN :
          GetAllToolSpecs(answers, namespaced)
    \/ \E answers \in [GenericServers -> BOOLEAN] : HealthCheck(answers)

SpecRegistry == InitStore /\ [][NextRegistry]_vars

\* ------------------------------------------------------ the namespaced names
\* server ids and tool names: every name of up to MaxNameLen pieces
NamePieces == {"a", "_"}
RECURSIVE NamesUpTo(_)
NamesUpTo(n) ==
    IF n = 0 THEN {<< >>}
    ELSE LET shorter == NamesUpTo(n - 1)
         IN shorter \cup {Append(x, p) : x \in shorter, p \in NamePieces}
Names == NamesUpTo(MaxNameLen) \ {<< >>}

\* a server lists a tool under its namespaced name, and the name is then
\* called: split("__", 1) gives the server and the tool the call goes to
ListThenCall(server, bare_name) ==
    /\ LET spec == ToolSpec(server, bare_name, TRUE) IN
       rev' = [op |-> "list_then_call", spec |-> spec,
               namespaced_ok |-> HasDelimiter(spec.name),
               to_server |-> ServerOf(spec.name),
               to_tool |-> BareOf(spec.name)]
    /\ UNCHANGED <<clients, gmail_http_client, attempts>>
    /\ UNCHANGED <<storevars, loopvars, poolvars, svcvars, secvars>>

NextNames ==
    \E server \in Names \cup GenericServers \cup {<<"gmail">>},
       bare_name \in Names \cup {BackendTools[i] : i \in 1..Len(BackendTools)} :
          ListThenCall(server, bare_name)

SpecNames == InitStore /\ [][NextNames]_vars

\* ------------------------------------------- calls by name, and the shutdown
\* the names handed to call_tool_by_fullname: listed tools, a bare name, a
\* server the registry was never given, a gmail tool that does not exist
CalledNames ==
    { CalendarList, GmailSearch, NotionSearch, BareList,
      Namespaced(<<"weather">>, <<"get">>), Namespaced(<<"gmail">>, <<"drafts">>) }

InvokedFirstClient(fullname) ==
    IF Route(fullname) = "gmail" THEN <<"gmail">>
    ELSE IF Route(fullname) = "client" THEN ServerOf(fullname)
    ELSE IF Len(clients) > 0 THEN clients[1]
    ELSE NoName

\* the backend call_tool sends a request to: the gmail HTTP client, the
\* client of the server, or none when a ValueError is raised first
Invoked(fullname) ==
    IF Route(fullname) = "gmail" THEN <<"gmail">>
    ELSE IF Route(fullname) = "client" THEN ServerOf(fullname)
    ELSE NoName

CallToolByFullname(fullname, outcome) ==
    /\ attempts = Len(ConfiguredServers)
    /\ LET to == Invoked(fullname) IN
       rev' = [op |-> "call_tool_by_fullname", fullname |-> fullname,
               invoked |-> to,
               raised |-> IF to = NoName THEN TRUE
                          ELSE call_tool(fullname, outcome).raised]
    /\ UNCHANGED <<clients, gmail_http_client, attempts>>
    /\ UNCHANGED <<storevars, loopvars, poolvars, svcvars, secvars>>

\* AsyncExitStack.aclose() exits every context it holds, last entered first,
\* goes on when one of them raises, and raises that exception at the end
StackClosed == {clients[k] : k \in 1..Len(clients)}
StackRaises(closes) == \E k \in 1..Len(clients) : ~closes[clients[k]]

\* __aexit__: the stack is closed; then the gmail client is disconnected
\* (an exception of it is passed over) and _clients is cleared
Shutdown(closes) ==
    /\ attempts = Len(ConfiguredServers)
    /\ LET raised == StackRaises(closes)
           gmail == IF ~raised /\ gmail_http_client THEN {<<"gmail">>} ELSE {}
       IN /\ clients' = IF raised THEN clients ELSE << >>
          /\ rev' = [op |-> "aexit", raised |-> raised, closes |-> closes,
                     held |-> StackClosed \cup
                              (IF gmail_http_client THEN {<<"gmail">>} ELSE {}),
                     closed |-> StackClosed \cup gmail]
    /\ attempts' = Len(ConfiguredServers) + 1
    /\ UNCHANGED gmail_http_client
    /\ UNCHANGED <<storevars, loopvars, poolvars, svcvars, secvars>>

NextLifecycle ==
    \/ \E ok \in BOOLEAN : Connect(ok)
    \/ \E fullname \in CalledNames, outcome \in BackendOutcomes :
          CallToolByFullname(fullname, outcome)
    \/ \E closes \in [GenericServers \cup {<<"gmail">>} -> BOOLEAN] : Shutdown(closes)

SpecLifecycle == InitStore /\ [][NextLifecycle]_vars

\* ---------------------------------------------------- the two expiry tests
\* the time a session has been idle when it is asked: whole days of up to
\* MaxDays, plus a few seconds or all but one second of a day
IdleTimes ==
    {d * SecondsPerDay + r :
        d \in 0..MaxDays, r \in (0..MaxIdle) \cup {SecondsPerDay - 1}}
Timeouts == 0..MaxIdle

\* a session created at time 0 and left idle, its conversation started or not
IdleSession(active) ==
    [NewSession("u1", "c1", FALSE) EXCEPT
        !.last_activity = 0, !.rate_limit_reset = 0,
        !.conversation_active = active,
        !.conversation_started_at = IF active THEN 0 ELSE NoTime]

InitExpiry ==
    /\ now \in IdleTimes
    /\ sessions \in {<< >>} \cup {<<IdleSession(active)>> : active \in BOOLEAN}
    /\ active_threads = {}
    /\ is_running = FALSE
    /\ sweep_due = 0
    /\ ev = NoEvent
    /\ window_admits = [u \in Users |-> 0]
    /\ turns = [u \in Users |-> [start |-> NoTime, count |-> 0]]
    /\ pending = << >>
    /\ NoTurn
    /\ NoRegistry
    /\ NoPool
    /\ NoHandlers
    /\ NoSecurity

IsExpired(u, timeout_seconds) ==
    /\ Has(sessions, u)
    /\ ev' = [op |-> "is_expired", user |-> u, timeout |-> timeout_seconds,
              result |-> is_expired(Lookup(sessions, u), timeout_seconds)]
    /\ UNCHANGED <<now, sessions, active_threads, is_running, sweep_due, ghost,
                   pending, loopvars, regvars, poolvars, svcvars, secvars>>

IsConversationExpired(u, timeout_seconds) ==
    /\ ev' = [op |-> "is_conversation_expired", user |-> u,
              timeout |-> timeout_seconds,
              result |-> is_conversation_expired(M0, u, timeout_seconds)]
    /\ UNCHANGED <<now, sessions, active_threads, is_running, sweep_due, ghost,
                   pending, loopvars, regvars, poolvars, svcvars, secvars>>

NextExpiry ==
    \/ \E timeout_seconds \in Timeouts : IsExpired("u1", timeout_seconds)
    \/ \E timeout_seconds \in Timeouts : IsConversationExpired("u1", timeout_seconds)

SpecExpiry == InitExpiry /\ [][NextExpiry]_vars

\* ------------------------------------------------ the sweep over long sleeps
\* a day passes and no cycle of the sweep runs in it: the manager is not
\* started yet, or the sleep of _cleanup_loop, which lasts the interval at
\* the least, ends late on a host that was suspended
LongSleep ==
    /\ now + SecondsPerDay <= MaxDays * SecondsPerDay + MaxTime
    /\ now' = now + SecondsPerDay
    /\ ev' = NoEvent
    /\ UNCHANGED <<sessions, active_threads, is_running, sweep_due, ghost, pending,
                   loopvars, regvars, poolvars, svcvars, secvars>>

TickOfDay ==
    /\ now % SecondsPerDay < MaxTime
    /\ now' = now + 1
    /\ ev' = NoEvent
    /\ UNCHANGED <<sessions, active_threads, is_running, sweep_due, ghost, pending,
                   loopvars, regvars, poolvars, svcvars, secvars>>

SweepUsers == {"u1", "u2"}

NextSweep ==
    \/ TickOfDay
    \/ LongSleep
    \/ Start
    \/ \E u \in SweepUsers : GetOrCreateSession(u, "c1")
    \/ \E u \in SweepUsers, t \in Threads : SetThreadId(u, t)
    \/ Sweep

SpecSweep == InitStore /\ [][NextSweep]_vars

\* ------------------------------------------ a session evicted and come back
\* u1 talks to the bot and gathers state; u2 and u3 take the room of the dict
NextEvict ==
    \/ Tick
    \/ \E u \in Users : GetOrCreateSession(u, "c1")
    \/ /\ turns["u1"].count < rate_limit_requests
       /\ OnMessageCounted("u1", "c1", "mention")
    \/ UpdateConversationHistory("u1", <<"m1", "m2", "m3">>)
    \/ \E t \in Threads : SetThreadId("u1", t)

SpecEvict == InitBot /\ [][NextEvict]_vars

\* ------------------------------------------ CalendarAssistantServicePool
PoolUsers == {"e1", "e2", "e3"}

InServices(u) == \E k \in 1..Len(services) : services[k] = u
DelService(S, u) == SelectSeq(S, LAMBDA x : x # u)

InLastUsed(u) == \E k \in 1..Len(last_used) : last_used[k].user = u
DelLastUsed(L, u) == SelectSeq(L, LAMBDA x : x.user # u)

\* self._last_used[user_email] = datetime.now(): in place, or a new last key
SetLastUsed(L, u) ==
    IF \E k \in 1..Len(L) : L[k].user = u
    THEN [k \in 1..Len(L) |-> IF L[k].user = u THEN [L[k] EXCEPT !.at = now] ELSE L[k]]
    ELSE Append(L, [user |-> u, at |-> now])

\* self._services[user_email] = service
SetService(S, u) == IF \E k \in 1..Len(S) : S[k] = u THEN S ELSE Append(S, u)

\* min(self._last_used.items(), key=lambda x: x[1])[0]: the first of the least
OldestUsed(L) ==
    LET k == CHOOSE i \in 1..Len(L) :
                /\ \A j \in 1..Len(L) : L[i].at <= L[j].at
                /\ \A j \in 1..(i - 1) : L[j].at > L[i].at
    IN L[k].user

AtMaxInstances(n) == n >= max_instances

NoCall == [pc |-> "idle", user |-> None, victim |-> None]
Call(at, u, v) == [pc |-> at, user |-> u, victim |-> v]

\* get_service up to its first await, or to its return when the service is there
GetService(i, u) ==
    /\ in_flight[i].pc = "idle"
    /\ \A j \in 1..(i - 1) : in_flight[j].pc # "idle"
    /\ IF InServices(u)
       THEN /\ last_used' = SetLastUsed(last_used, u)
            /\ pev' = [op |-> "returned", user |-> u, created |-> FALSE]
            /\ UNCHANGED <<services, in_flight>>
       ELSE /\ IF AtMaxInstances(Len(services))
               THEN IF last_used = << >>
                    THEN /\ in_flight' = in_flight
                         /\ pev' = [op |-> "raised", user |-> u, error |-> "ValueError"]
                    ELSE LET v == OldestUsed(last_used) IN
                         /\ in_flight' = [in_flight EXCEPT ![i] =
                                         IF InServices(v) THEN Call("cleanup", u, v)
                                         ELSE Call("initialize", u, None)]
                         /\ pev' = [op |-> "evicting", user |-> u, victim |-> v]
               ELSE /\ in_flight' = [in_flight EXCEPT ![i] = Call("initialize", u, None)]
                    /\ pev' = [op |-> "creating", user |-> u]
            /\ UNCHANGED <<services, last_used>>
    /\ UNCHANGED pool_sweep
    /\ UNCHANGED <<stopping, storevars, loopvars, regvars, svcvars, secvars>>

\* _remove_service after its await of cleanup(): the two del statements
CleanupReturns(i) ==
    /\ in_flight[i].pc = "cleanup"
    /\ LET v == in_flight[i].victim
           found == InServices(v) /\ InLastUsed(v)
       IN /\ services' = DelService(services, v)
          /\ last_used' = IF InServices(v) THEN DelLastUsed(last_used, v) ELSE last_used
          /\ in_flight' = [in_flight EXCEPT ![i] =
                          IF found THEN Call("initialize", in_flight[i].user, None)
                          ELSE NoCall]
          /\ pev' = [op |-> "cleanup_returned", user |-> in_flight[i].user, victim |-> v,
                     raised |-> ~found,
                     oldest |-> IF last_used = << >> THEN None
                                ELSE OldestUsed(last_used)]
    /\ UNCHANGED pool_sweep
    /\ UNCHANGED <<stopping, storevars, loopvars, regvars, svcvars, secvars>>

\* get_service after its await of initialize(): the service is stored, its
\* use is dated and it is returned
InitializeReturns(i) ==
    /\ in_flight[i].pc = "initialize"
    /\ services' = SetService(services, in_flight[i].user)
    /\ last_used' = SetLastUsed(last_used, in_flight[i].user)
    /\ in_flight' = [in_flight EXCEPT ![i] = NoCall]
    /\ pev' = [op |-> "returned", user |-> in_flight[i].user, created |-> TRUE]
    /\ UNCHANGED pool_sweep
    /\ UNCHANGED <<stopping, storevars, loopvars, regvars, svcvars, secvars>>

\* start(): the cleanup task begins its first sleep
PoolStart ==
    /\ pool_sweep.pc = "off"
    /\ pool_sweep' = [pc |-> "sleep", queue |-> << >>, due |-> now + cleanup_interval]
    /\ pev' = NoEvent
    /\ UNCHANGED <<services, last_used, in_flight>>
    /\ UNCHANGED <<stopping, storevars, loopvars, regvars, svcvars, secvars>>

\* _cleanup_loop after its sleep: the services unused for longer than the
\* timeout are listed
PoolSweepWakes ==
    /\ pool_sweep.pc = "sleep"
    /\ now >= pool_sweep.due
    /\ LET old == SelectSeq(last_used, LAMBDA x : Seconds(now - x.at) > pool_timeout)
       IN pool_sweep' = [pool_sweep EXCEPT
                            !.pc = "remove",
                            !.queue = [k \in 1..Len(old) |-> old[k].user]]
    /\ pev' = NoEvent
    /\ UNCHANGED <<services, last_used, in_flight>>
    /\ UNCHANGED <<stopping, storevars, loopvars, regvars, svcvars, secvars>>

\* the loop over to_remove, up to the await inside _remove_service
PoolSweepNext ==
    /\ pool_sweep.pc = "remove"
    /\ pool_sweep' =
          IF pool_sweep.queue = << >>
          THEN [pc |-> "sleep", queue |-> << >>, due |-> now + cleanup_interval]
          ELSE IF InServices(Head(pool_sweep.queue))
               THEN [pool_sweep EXCEPT !.pc = "cleanup"]
               ELSE [pool_sweep EXCEPT !.queue = Tail(@)]
    /\ pev' = NoEvent
    /\ UNCHANGED <<services, last_used, in_flight>>
    /\ UNCHANGED <<stopping, storevars, loopvars, regvars, svcvars, secvars>>

\* _remove_service in the loop, after its await: a KeyError of the del
\* statements is caught by the loop, which goes back to sleep
PoolSweepCleanupReturns ==
    /\ pool_sweep.pc = "cleanup"
    /\ LET v == Head(pool_sweep.queue)
           found == InServices(v) /\ InLastUsed(v)
       IN /\ services' = DelService(services, v)
          /\ last_used' = IF InServices(v) THEN DelLastUsed(last_used, v) ELSE last_used
          /\ pool_sweep' =
                IF found THEN [pool_sweep EXCEPT !.pc = "remove", !.queue = Tail(@)]
                ELSE [pc |-> "sleep", queue |-> << >>, due |-> now + cleanup_interval]
          /\ pev' = [op |-> "swept", victim |-> v, raised |-> ~found]
    /\ UNCHANGED in_flight
    /\ UNCHANGED <<stopping, storevars, loopvars, regvars, svcvars, secvars>>

NextPool ==
    \/ Tick
    \/ PoolStart
    \/ \E i \in 1..MaxCalls, u \in PoolUsers : GetService(i, u)
    \/ \E i \in 1..MaxCalls : CleanupReturns(i)
    \/ \E i \in 1..MaxCalls : InitializeReturns(i)
    \/ PoolSweepWakes
    \/ PoolSweepNext
    \/ PoolSweepCleanupReturns

SpecPool == InitStore /\ [][NextPool]_vars

\* stop() up to its first await of a cleanup: the flag is cleared and the
\* cleanup task is cancelled and awaited. The task is suspended in its sleep
\* or in the cleanup() inside _remove_service, where the CancelledError is
\* raised; it passes cleanup's "except Exception" and ends the loop at
\* "except asyncio.CancelledError: break", before the del statements. Then
\* the iteration over self._services.values() begins.
PoolStop ==
    /\ stopping.pc = "off"
    /\ pool_sweep.pc \in {"off", "sleep", "cleanup"}
    /\ pool_sweep' = [pc |-> IF pool_sweep.pc = "off" THEN "off" ELSE "done",
                      queue |-> << >>, due |-> 0]
    /\ IF services = << >>
       THEN /\ stopping' = [pc |-> "done", at |-> 0, size |-> 0]
            /\ last_used' = << >>
            /\ pev' = [op |-> "stop", raised |-> FALSE,
                       cancelled_at |-> pool_sweep.pc]
       ELSE /\ stopping' = [pc |-> "cleanup", at |-> 1, size |-> Len(services)]
            /\ last_used' = last_used
            /\ pev' = [op |-> "stopping", cancelled_at |-> pool_sweep.pc]
    /\ UNCHANGED <<services, in_flight>>
    /\ UNCHANGED <<storevars, loopvars, regvars, svcvars, secvars>>

\* the size the dict iterator noted differs from the size of the dict
DictChangedSize(size, S) == size # Len(S)

\* stop() after an await of service.cleanup(): the iterator over values() is
\* advanced, which raises RuntimeError when the dict has changed size; after
\* the last service both dicts are cleared
PoolStopCleanupReturns ==
    /\ stopping.pc = "cleanup"
    /\ IF DictChangedSize(stopping.size, services)
       THEN /\ stopping' = [stopping EXCEPT !.pc = "raised"]
            /\ pev' = [op |-> "stop", raised |-> TRUE, cancelled_at |-> "none"]
            /\ UNCHANGED <<services, last_used>>
       ELSE IF stopping.at = stopping.size
            THEN /\ stopping' = [stopping EXCEPT !.pc = "done"]
                 /\ services' = << >>
                 /\ last_used' = << >>
                 /\ pev' = [op |-> "stop", raised |-> FALSE, cancelled_at |-> "none"]
            ELSE /\ stopping' = [stopping EXCEPT !.at = @ + 1]
                 /\ pev' = NoEvent
                 /\ UNCHANGED <<services, last_used>>
    /\ UNCHANGED <<in_flight, pool_sweep>>
    /\ UNCHANGED <<storevars, loopvars, regvars, svcvars, secvars>>

\* the identities served before and while the pool is stopped
PoolStopUsers == {"e1", "e2"}

NextPoolStop ==
    \/ Tick
    \/ PoolStart
    \/ \E i \in 1..MaxCalls, u \in PoolStopUsers : GetService(i, u)
    \/ \E i \in 1..MaxCalls : InitializeReturns(i)
    \/ PoolSweepWakes
    \/ PoolSweepNext
    \/ PoolSweepCleanupReturns
    \/ PoolStop
    \/ PoolStopCleanupReturns

SpecPoolStop == InitStore /\ [][NextPoolStop]_vars

\* DiscordSessionManager.stop(): the flag is cleared, the cleanup task, which
\* is suspended in its sleep, is cancelled and ends at "except
\* asyncio.CancelledError: break", and both collections are cleared
Stop ==
    /\ Become(Mgr(<< >>, {}))
    /\ is_running' = FALSE
    /\ ev' = [op |-> "stop", was_running |-> is_running]
    /\ UNCHANGED <<now, sweep_due, loopvars, regvars, poolvars, svcvars, secvars>>

NextStoreStop ==
    \/ Tick
    \/ Start
    \/ \E u \in SweepUsers, c \in StoreChannels : GetOrCreateSession(u, c)
    \/ \E u \in SweepUsers, t \in Threads : SetThreadId(u, t)
    \/ Sweep
    \/ Stop

SpecStoreStop == InitStore /\ [][NextStoreStop]_vars

\* ------------------------------------------------- the threads of sessions
\* the threads the platform opens for the conversations
ThreadIds == {"t1", "t2"}

NextThreads ==
    \/ Tick
    \/ Start
    \/ \E u \in Users : GetOrCreateSession(u, "c1")
    \/ \E u \in Users, t \in ThreadIds : SetThreadId(u, t)
    \/ \E t \in ThreadIds : CleanupThread(t)
    \/ \E u \in Users : RemoveSession(u)
    \/ Sweep

SpecThreads == InitStore /\ [][NextThreads]_vars

\* ------------------------------------------ reuse and reset of one session
\* a reset that replaces the session by a new one
reset_conversation_afresh(M, u) ==
    IF Has(M.sessions, u)
    THEN LET s == Lookup(M.sessions, u)
         IN [m |-> Mgr(Store(M.sessions, NewSession(u, s.channel_id, s.is_dm)),
                       M.active_threads),
             result |-> TRUE]
    ELSE [m |-> M, result |-> FALSE]

\* reset_conversation: the manager after it and its answer
reset_conversation(M, u) ==
    IF Has(M.sessions, u)
    THEN [m |-> Mgr(Store(M.sessions,
                          update_activity([Lookup(M.sessions, u)
                                              EXCEPT !.conversation_history = << >>])),
                    M.active_threads),
          result |-> TRUE]
    ELSE [m |-> M, result |-> FALSE]

ResetConversation(u) ==
    LET r == reset_conversation(M0, u)
    IN /\ Become(r.m)
       /\ ev' = [op |-> "reset_conversation", user |-> u, result |-> r.result,
                 had_session |-> Has(sessions, u)]
       /\ UNCHANGED <<now, is_running, sweep_due, loopvars, regvars, poolvars, svcvars, secvars>>

StartConversation(u) ==
    /\ Become(start_conversation(M0, u))
    /\ ev' = NoEvent
    /\ UNCHANGED <<now, is_running, sweep_due, loopvars, regvars, poolvars, svcvars, secvars>>

ReuseHistory == <<"m1">>

\* the identities whose history, counter and conversation are exercised
ReuseUsers == {"u1"}

NextReuse ==
    \/ Tick
    \/ \E u \in Users, c \in StoreChannels : GetOrCreateSession(u, c)
    \/ \E u \in ReuseUsers : UpdateConversationHistory(u, ReuseHistory)
    \/ \E u \in ReuseUsers : ResetConversation(u)
    \/ \E u \in ReuseUsers : CheckRateLimit(u)
    \/ \E u \in ReuseUsers : StartConversation(u)

SpecReuse == InitStore /\ [][NextReuse]_vars

\* ------------------------------- the handlers and the service they share
\* _get_user_email gives every identity the one default address, so get_service
\* hands every handler the same CalendarAssistantService, whose assistant
\* keeps the history of the turn in self._assistant.conversation_history.
TurnMessage(t, u, role) == [turn |-> t, user |-> u, role |-> role]

AppendTo(L, a, m) == [L EXCEPT ![a] = Append(@, m)]

IsPrefix(p, h) == Len(p) <= Len(h) /\ SubSeq(h, 1, Len(p)) = p

\* the call of process_message(assistant_message, session.conversation_history)
\* up to its await of get_all_tool_specs: the assistant is given a copy of the
\* list passed in, to which the user message is appended
process_message_begins(i, u) ==
    LET t == Len(lists) + 1
        passed == lists[session_history[u]]
    IN /\ lists' = Append(lists, Append(passed, TurnMessage(t, u, "user")))
       /\ assistant_history' = t
       /\ handlers' = [handlers EXCEPT ![i] =
                          [pc |-> "specs", user |-> u, turn |-> t, read |-> passed,
                           iteration |-> 0]]
       /\ tev' = [op |-> "called", user |-> u, turn |-> t]
       /\ UNCHANGED session_history

\* a handler that waits for the identity's turn in flight to end
TurnBeginsInTurn(i, u) ==
    /\ \A j \in 1..MaxHandlers : handlers[j].user # u
    /\ handlers[i].pc = "idle"
    /\ \A j \in 1..(i - 1) : handlers[j].pc # "idle"
    /\ Len(lists) < 3 + MaxTurns
    /\ process_message_begins(i, u)
    /\ UNCHANGED <<storevars, loopvars, regvars, poolvars, secvars>>

\* _handle_assistant_message reaches process_message
TurnBegins(i, u) ==
    /\ handlers[i].pc = "idle"
    /\ \A j \in 1..(i - 1) : handlers[j].pc # "idle"
    /\ Len(lists) < 3 + MaxTurns
    /\ process_message_begins(i, u)
    /\ UNCHANGED <<storevars, loopvars, regvars, poolvars, secvars>>

\* "return final_response, self._assistant.conversation_history", and the
\* handler's update_conversation_history, which follows without an await: the
\* session is given the list the assistant holds
TurnReturns(i, L) ==
    /\ lists' = L
    /\ session_history' = [session_history EXCEPT ![handlers[i].user] = assistant_history]
    /\ handlers' = [handlers EXCEPT ![i] = NoHandler]
    /\ tev' = [op |-> "returned", user |-> handlers[i].user, turn |-> handlers[i].turn,
               read |-> handlers[i].read, history |-> L[assistant_history]]
    /\ UNCHANGED assistant_history

\* the handler is suspended in _execute_tool_calls
TurnAwaitsTools(i, L, at) ==
    /\ lists' = L
    /\ handlers' = [handlers EXCEPT ![i].pc = at, ![i].iteration =
                       IF at = "more_tools" THEN @ + 1 ELSE @]
    /\ tev' = NoEvent
    /\ UNCHANGED <<assistant_history, session_history>>

\* get_all_tool_specs returns: the provider is asked (without an await) and
\* its message appended to the list the assistant holds now
ToolSpecsReturn(i, tool_calls) ==
    /\ handlers[i].pc = "specs"
    /\ LET h == handlers[i]
           L == AppendTo(lists, assistant_history,
                         TurnMessage(h.turn, h.user, "assistant"))
       IN IF tool_calls THEN TurnAwaitsTools(i, L, "tools") ELSE TurnReturns(i, L)
    /\ UNCHANGED <<storevars, loopvars, regvars, poolvars, secvars>>

\* the follow-up loop from its test to the next await or to the return
FollowUp(i, L, tool_calls) ==
    LET h == handlers[i]
    IN IF h.iteration < max_iterations
       THEN IF tool_calls THEN TurnAwaitsTools(i, L, "more_tools")
            ELSE TurnReturns(i, AppendTo(L, assistant_history,
                                         TurnMessage(h.turn, h.user, "assistant")))
       ELSE TurnReturns(i, L)

\* _execute_tool_calls returns: the tool messages are appended (in the
\* follow-up loop after the assistant message that asked for them)
ToolCallsReturn(i, tool_calls) ==
    /\ handlers[i].pc \in {"tools", "more_tools"}
    /\ LET h == handlers[i]
           asked == IF h.pc = "more_tools"
                    THEN AppendTo(lists, assistant_history,
                                  TurnMessage(h.turn, h.user, "assistant"))
                    ELSE lists
           L == AppendTo(asked, assistant_history, TurnMessage(h.turn, h.user, "tool"))
       IN FollowUp(i, L, tool_calls)
    /\ UNCHANGED <<storevars, loopvars, regvars, poolvars, secvars>>

NextTurns ==
    \/ \E i \in 1..MaxHandlers, u \in TurnUsers : TurnBegins(i, u)
    \/ \E i \in 1..MaxHandlers, tool_calls \in BOOLEAN : ToolSpecsReturn(i, tool_calls)
    \/ \E i \in 1..MaxHandlers, tool_calls \in BOOLEAN : ToolCallsReturn(i, tool_calls)

SpecTurns == InitStore /\ [][NextTurns]_vars

\* --------------------------------------------------------- SecurityManager
\* the limit stands for the 10 attempts, the window for the 5 minutes in which
\* they count, rate_limited_for for the 5 minutes and restricted_for for the 15
\* minutes of the code.
is_restricted(p) == p.restricted_until # NoTime /\ now < p.restricted_until

Recent(times) == SelectSeq(times, LAMBDA t : t > now - attempts_window)

TooManyAttempts(n) == n >= attempts_limit

Security(P, F, R, S) ==
    [permissions |-> P, failed_attempts |-> F, rate_limits |-> R,
     suspicious_activity |-> S]

Sec0 == Security(permissions, failed_attempts, rate_limits, suspicious_activity)

\* report_suspicious_activity(user_id, "RAPID_REQUESTS", ...)
report_suspicious_activity(X, u) ==
    [X EXCEPT !.suspicious_activity = @ \cup {u},
              !.permissions[u].restricted_until = now + restricted_for]

\* _check_rate_limit: the manager after it and its answer. Nothing in the
\* class adds a time to the list of a user's attempts.
security_check_rate_limit(X, u) ==
    IF X.rate_limits[u] # NoTime /\ now < X.rate_limits[u]
    THEN [x |-> X, result |-> FALSE]
    ELSE LET K == [X EXCEPT !.failed_attempts[u] = Recent(@)]
         IN IF TooManyAttempts(Len(K.failed_attempts[u]))
            THEN [x |-> report_suspicious_activity(
                           [K EXCEPT !.rate_limits[u] = now + rate_limited_for], u),
                  result |-> FALSE]
            ELSE [x |-> K, result |-> TRUE]

\* check_user_permissions without a command
check_user_permissions(X, u) ==
    IF is_restricted(X.permissions[u])
    THEN [x |-> X, result |-> FALSE]
    ELSE LET r == security_check_rate_limit(X, u)
         IN IF ~r.result THEN r
            ELSE [x |-> [r.x EXCEPT !.permissions[u].total_requests = @ + 1],
                  result |-> TRUE]

CheckUserPermissions(u) ==
    LET r == check_user_permissions(Sec0, u)
        made == Append(Recent(checks[u]), now)
    IN /\ Len(checks[u]) < MaxChecks
       /\ permissions[u].total_requests < MaxChecks
       /\ permissions' = r.x.permissions
       /\ failed_attempts' = r.x.failed_attempts
       /\ rate_limits' = r.x.rate_limits
       /\ suspicious_activity' = r.x.suspicious_activity
       /\ checks' = [checks EXCEPT ![u] = made]
       /\ sev' = [op |-> "check", user |-> u, result |-> r.result,
                  recent |-> Len(made)]
       /\ UNCHANGED <<storevars, loopvars, regvars, poolvars, svcvars>>

NextSecurity ==
    \/ Tick
    \/ \E u \in SecUsers : CheckUserPermissions(u)

SpecSecurity == InitStore /\ [][NextSecurity]_vars

\* ==================================================================== claims
\* C1: in every reachable state of the session store the number of stored
\* sessions is at most max_sessions.
C1_PoolBounded == Len(sessions) <= max_sessions

C1_Witness ==
    /\ ev.op = "get_or_create"
    /\ ev.created
    /\ ev.evicted # {}
    /\ Len(sessions) = max_sessions

\* C2: get_or_create_session for an identity without a session, on a full
\* store, removes exactly one session, one whose last_activity is the least of
\* all stored sessions, and leaves every other stored session as it was.
C2_Step ==
    \A u \in Users :
        (~Has(sessions, u) /\ Has(sessions', u) /\ Len(sessions) = max_sessions)
        => \E v \in Ids(sessions) :
              /\ Ids(sessions') = (Ids(sessions) \ {v}) \cup {u}
              /\ \A w \in Ids(sessions) :
                    Lookup(sessions, v).last_activity <= Lookup(sessions, w).last_activity
              /\ \A w \in Ids(sessions) \ {v} :
                    Lookup(sessions', w) = Lookup(sessions, w)

C2_EvictsOldestOnly == [][C2_Step]_vars

C2_Witness ==
    /\ ev.op = "get_or_create"
    /\ ev.created
    /\ Cardinality(ev.evicted) = 1
    /\ \E w \in Ids(sessions) \ {ev.user} :
          /\ Lookup(sessions, w).last_activity < now
          /\ Lookup(sessions, w).channel_id = DM

\* C3: once max calls of check_rate_limit have been admitted under one window
\* boundary, every further call made before that boundary passes is rejected.
C3_FullWindowRejects ==
    (ev.op = "check_rate_limit" /\ ev.window_full) => ~ev.result

C3_Witness ==
    /\ ev.op = "check_rate_limit"
    /\ ev.window_full
    /\ ~ev.result
    /\ window_admits[ev.user] = rate_limit_requests

\* C4: along the message handling path no identity has more than
\* rate_limit_requests turns admitted within one rate window, counted from the
\* identity's first message.
C4_TurnsWithinLimit == \A u \in Users : turns[u].count <= rate_limit_requests

\* C5 (as amended): one turn never issues more than max_iterations + 1
\* provider requests, the first one and max_iterations follow-ups; a turn in
\* which every response carried tool calls ends with the canned completion
\* message after exactly max_iterations + 1 requests.
C5_RoundTripsCapped ==
    /\ round_trips <= max_iterations + 1
    /\ (pc = "done" /\ final_response = CannedText)
          => round_trips = max_iterations + 1
    /\ (pc = "done" /\ failure = None /\ message_obj # << >>)
          => (final_response = CannedText /\ round_trips = max_iterations + 1)

C5_Witness ==
    /\ pc = "done"
    /\ final_response = CannedText
    /\ round_trips = max_iterations + 1

\* C5 (as stated): a turn in which every response carries tool calls issues
\* exactly max_iterations provider requests and then returns the canned
\* message, and no turn issues more than max_iterations requests.
C5_ExactlyMaxIterations ==
    /\ round_trips <= max_iterations
    /\ (pc = "done" /\ final_response = CannedText)
          => round_trips = max_iterations

C6_BatchIds == {tasks[i].call.id : i \in 1..Len(tasks)}
C6_BatchInHistory ==
    \E k \in 1..Len(conversation_history) :
        /\ conversation_history[k].role = "tool"
        /\ conversation_history[k].tool_call_id \in C6_BatchIds
C6_Barrier ==
    /\ C6_BatchInHistory => \A i \in 1..Len(tasks) : tasks[i].state = "done"
    /\ pc = "gather" => ~C6_BatchInHistory
    /\ (pc \in {"gather", "loop"} /\ tasks # << >>)
          => round_trips = tasks[1].call.id[1]
    /\ since_append <= 1
    /\ (tool_messages # << >> /\ pc \in {"execute", "gather"}) => since_append = 1

\* C6 (as amended): of a response with M tool calls, all M are dispatched
\* and have returned before any of their results enters the history, no
\* provider request is issued while one is outstanding, and once the M
\* results are appended exactly one further provider request follows,
\* unless the batch was that of the last permitted iteration: then none
\* follows and the turn ends with the canned message.
C6_BarrierThenOneRoundTrip ==
    /\ C6_Barrier
    /\ (pc = "done" /\ tool_messages # << >>)
          => \/ since_append = 1
             \/ /\ since_append = 0
                /\ iteration = max_iterations
                /\ final_response = CannedText
    /\ (pc = "done" /\ tool_messages # << >> /\ final_response # CannedText)
          => since_append = 1

C6_Witness ==
    /\ pc = "done"
    /\ phase = "follow"
    /\ Len(tool_messages) = 2
    /\ since_append = 1
    /\ failure = None

\* C6 (as stated): as above, with exactly one further provider request
\* after every appended batch.
C6_AlwaysOneRoundTrip ==
    /\ C6_Barrier
    /\ (pc = "done" /\ tool_messages # << >>) => since_append = 1

C7_Failed(t) == t.outcome \in {"rejected", "fail", "timeout"}
C7_AuthHinted(t) ==
    /\ t.call.name = GmailSearch
    /\ t.outcome = "timeout"
C7_BatchYieldsResults ==
    /\ Len(tool_messages) = Len(message_obj)
    /\ Len(conversation_history) >= Len(tool_messages)
    /\ SubSeq(conversation_history,
              Len(conversation_history) - Len(tool_messages) + 1,
              Len(conversation_history)) = tool_messages
    /\ \A i \in 1..Len(tool_messages) :
          /\ tool_messages[i].role = "tool"
          /\ tool_messages[i].tool_call_id = message_obj[i].id
          /\ tasks[i].outcome = "ok" => tool_messages[i].content = ResultText

\* C7 (as amended): a batch of M calls of which any subset fails in the
\* registry or the backend yields M tool-result messages, in call order;
\* a failed call's content is "Error: <message>", except that a failed
\* gmail search_emails call whose exception text contains "timeout" or
\* "cancelled" yields the authentication hint instead; the other calls'
\* results are unaffected; and the loop goes on as after any batch: to the
\* next provider request, or, at the iteration cap, to the canned message.
C7_FailuresBecomeResults ==
    /\ [](pc = "loop" =>
            /\ C7_BatchYieldsResults
            /\ \A i \in 1..Len(tasks) :
                  C7_Failed(tasks[i]) =>
                     tool_messages[i].content =
                        IF C7_AuthHinted(tasks[i]) THEN GmailAuthText ELSE ErrorText)
    /\ [][pc = "loop" =>
            /\ failure' = None
            /\ IF iteration < max_iterations
               THEN pc' = "request"
               ELSE pc' = "done" /\ final_response' = CannedText]_vars

C7_Witness ==
    /\ pc = "loop"
    /\ iteration < max_iterations
    /\ \E i, j \in 1..Len(tasks) :
          /\ tasks[i].outcome = "fail"
          /\ tasks[j].outcome = "ok"

\* C7 (as stated): every failed call's content is "Error: <message>", and
\* after the batch the loop issues the next provider request.
C7_ErrorTextThenRoundTrip ==
    /\ [](pc = "loop" =>
            /\ C7_BatchYieldsResults
            /\ \A i \in 1..Len(tasks) :
                  C7_Failed(tasks[i]) => tool_messages[i].content = ErrorText)
    /\ [][pc = "loop" => pc' = "request"]_vars

\* C8: once a response with a call whose arguments are malformed JSON has
\* been handed to _execute_tool_calls, every call of the batch has been
\* made a task, the malformed one with empty arguments, and the turn has
\* not ended in the apology because of the arguments.
C8_MalformedDispatchedEmpty ==
    (/\ pc \in {"gather", "loop", "done"}
     /\ \E i \in 1..Len(message_obj) : message_obj[i].arguments = "malformed")
    => /\ failure # "arguments"
       /\ final_response # ApologyText
       /\ Len(tasks) = Len(message_obj)
       /\ \A i \in 1..Len(message_obj) :
             message_obj[i].arguments = "malformed" => tasks[i].args = EmptyArgs

\* C9: an untriggered message on the channel of an active conversation that has
\* been idle longer than the flow timeout is not routed to the agent: the
\* conversation is ended and the caller is told that it lapsed.
C9_ExpiryObserved ==
    (/\ ev.op = "message"
     /\ ev.kind = "plain"
     /\ ev.channel \in TextChannels
     /\ ev.was_flowing
     /\ ev.was_idle)
    => /\ ~ev.respond
       /\ ev.reply = "expired"
       /\ ~is_conversation_active(M0, ev.user)

\* C10: after a mention from an identity has been handled, that identity's
\* conversation is active, whether or not it had a session before.
C10_TriggerActivates ==
    (/\ ev.op = "message"
     /\ ev.kind = "mention"
     /\ ev.channel \in TextChannels
     /\ ev.respond)
    => is_conversation_active(M0, ev.user)

\* C11 (as amended): while an identity's conversation is idle, a message that
\* is neither a direct message, nor a mention, nor a message in the thread
\* the session records as the identity's own, is never routed to the agent.
C11_IdleNotRouted ==
    (/\ ev.op = "message"
     /\ ~ev.was_active
     /\ ev.kind # "mention"
     /\ ev.channel # DM
     /\ ~ev.in_own_thread)
    => (~ev.respond /\ ~ev.admitted)

C11_Witness ==
    /\ ev.op = "message"
    /\ ev.had_session
    /\ ~ev.was_active
    /\ ev.kind = "plain"
    /\ ev.channel = "c1"
    /\ ~ev.respond
    /\ Lookup(sessions, ev.user).channel_id = "c1"
    /\ Lookup(sessions, ev.user).thread_id # None

\* C11 (as stated): while an identity's conversation is idle, a message that
\* is neither a direct message nor a mention is never routed to the agent.
C11_OnlyTriggersRouted ==
    (/\ ev.op = "message"
     /\ ~ev.was_active
     /\ ev.kind # "mention"
     /\ ev.channel # DM)
    => ~ev.respond

\* C12: an end command from an identity whose conversation is active makes
\* the conversation inactive at once, is not routed to the agent, and leaves
\* the session in the store with its history as it was.
C12_EndCommandEnds ==
    (/\ ev.op = "message"
     /\ ev.kind = "end"
     /\ ev.was_active)
    => /\ ~ev.respond
       /\ ~ev.admitted
       /\ ev.reply = "ended"
       /\ Has(sessions, ev.user)
       /\ ~is_conversation_active(M0, ev.user)
       /\ ev.history_kept

C12_Witness ==
    /\ ev.op = "message"
    /\ ev.kind = "end"
    /\ ev.was_active
    /\ Has(sessions, ev.user)
    /\ Lookup(sessions, ev.user).conversation_history # << >>
    /\ ~Lookup(sessions, ev.user).conversation_active

C13_GroupsWhole(h) ==
    /\ \A k \in 1..Len(h) :
          (h[k].role = "assistant" /\ h[k].tool_calls # << >>) =>
             LET M == Len(h[k].tool_calls) IN
             /\ Len(h) >= k + M
             /\ \A i \in 1..M :
                   /\ h[k + i].role = "tool"
                   /\ h[k + i].tool_call_id = h[k].tool_calls[i].id
             /\ ((Len(h) > k + M) => h[k + M + 1].role # "tool")
    /\ \A k \in 1..Len(h) :
          h[k].role = "tool" =>
             \E j \in 1..(k - 1) :
                /\ h[j].role = "assistant"
                /\ k - j <= Len(h[j].tool_calls)
                /\ h[j].tool_calls[k - j].id = h[k].tool_call_id

\* C13: in the history a turn returns, every assistant message with M tool
\* calls is directly followed by exactly M tool-result messages whose call
\* ids are those of the calls, in order, and every tool-result message
\* belongs to the batch of the assistant message directly before that batch.
C13_ReturnedHistoryPaired == pc = "done" => C13_GroupsWhole(conversation_history)

\* C14: the messages a provider request carries never hold a tool-result
\* message whose assistant tool-call message the trim cut off, nor an
\* assistant tool-call message with only part of its results.
C14_TrimKeepsGroups == C13_GroupsWhole(messages)

C15_IsPrefix(a, b) == Len(a) <= Len(b) /\ SubSeq(b, 1, Len(a)) = a

\* C15: when a provider request fails, at any round-trip, the turn returns
\* the apology as its answer, the apology is the last message of the
\* returned history, and the user's message and every message the history
\* held before the failure are still there, in place.
C15_ProviderFailureApology ==
    /\ [](failure = "provider" =>
            /\ pc = "done"
            /\ final_response = ApologyText
            /\ conversation_history[Len(conversation_history)]
                  = AssistantMessage(ApologyText, << >>)
            /\ \E k \in 1..Len(conversation_history) :
                  conversation_history[k] = UserMessage)
    /\ [][/\ (pc # "idle" =>
                C15_IsPrefix(conversation_history, conversation_history'))
           /\ ((failure = None /\ failure' = "provider") =>
                (/\ pc = "request"
                 /\ conversation_history' =
                      Append(conversation_history,
                             AssistantMessage(ApologyText, << >>))))]_vars

C15_Witness ==
    /\ failure = "provider"
    /\ pc = "done"
    /\ round_trips = 3
    /\ Len(conversation_history) > 6

C16_Listed(server, bare_name) ==
    \E j \in 1..Len(rev.specs) :
        /\ rev.specs[j].server = server
        /\ rev.specs[j].bare_name = bare_name

\* C16: get_all_tool_specs returns even when the listing of a connected
\* backend raises: that backend contributes no tool and every tool of every
\* other connected backend is in the catalog.
C16_CatalogSurvivesBackend ==
    rev.op = "get_all_tool_specs" =>
       /\ ~rev.raised
       /\ \A k \in 1..Len(clients) :
             IF rev.answers[k].raised
             THEN \A j \in 1..Len(rev.specs) : rev.specs[j].server # clients[k]
             ELSE \A i \in 1..Len(rev.answers[k].tools) :
                     C16_Listed(clients[k], rev.answers[k].tools[i])

C17_Connected(C, g, server) ==
    IF server = <<"gmail">> THEN g ELSE \E k \in 1..Len(C) : C[k] = server

\* C17: __aenter__ tries every server whatever became of the ones before: an
\* attempt connects its server exactly when it succeeds, changes no other
\* server's connection, and is followed by the next attempt until all have
\* been made.
C17_ConnectsIndependently ==
    /\ [](attempts < Len(ConfiguredServers) => ENABLED Connect(TRUE))
    /\ [][attempts' # attempts =>
            /\ attempts' = attempts + 1
            /\ rev'.op = "connect"
            /\ rev'.server = ConfiguredServers[attempts']
            /\ C17_Connected(clients', gmail_http_client', rev'.server) = rev'.ok
            /\ \A k \in 1..Len(ConfiguredServers) :
                  k # attempts' =>
                     C17_Connected(clients', gmail_http_client', ConfiguredServers[k])
                       = C17_Connected(clients, gmail_http_client, ConfiguredServers[k])]_vars

C17_Witness ==
    /\ attempts = Len(ConfiguredServers)
    /\ clients = << <<"notion">> >>
    /\ gmail_http_client

\* C18: every tool of a catalog get_all_tool_specs returns belongs to a
\* connected backend; a backend that failed to connect has no tool in it.
C18_CatalogOfConnected ==
    (rev.op = "get_all_tool_specs" /\ ~rev.raised) =>
       \A j \in 1..Len(rev.specs) :
          C17_Connected(clients, gmail_http_client, rev.specs[j].server)

C18_Witness ==
    /\ rev.op = "get_all_tool_specs"
    /\ ~rev.raised
    /\ clients = << <<"calendar">> >>
    /\ ~gmail_http_client
    /\ Len(rev.specs) = MaxTools

\* C19: health_check reports false each server that failed to connect, and
\* sends it no probe; it reports true each connected server that answers
\* its probe, so that when all of those answer the map is false for exactly
\* the servers that failed to connect.
C19_HealthOfConnected ==
    rev.op = "health_check" =>
       /\ \A s \in GenericServers :
             /\ ~InClients(s) => (~rev.health[s] /\ s \notin rev.probed)
             /\ (InClients(s) /\ rev.answers[s]) => rev.health[s]
             /\ (InClients(s) /\ ~rev.answers[s]) => ~rev.health[s]
       /\ rev.health[<<"gmail">>] = gmail_http_client
       /\ rev.probed = {s \in GenericServers : InClients(s)}

C19_Witness ==
    /\ rev.op = "health_check"
    /\ clients = << <<"calendar">> >>
    /\ rev.answers[<<"notion">>]
    /\ ~rev.health[<<"notion">>]
    /\ rev.health[<<"calendar">>]
    /\ ~rev.health[<<"gmail">>]

\* C20: a tool listed under its namespaced name and called by that name is
\* dispatched to the server of its spec with the bare name of its spec,
\* whatever the server id and the tool name.
C20_NameRoundTrip ==
    rev.op = "list_then_call" =>
       /\ rev.namespaced_ok
       /\ rev.to_server = rev.spec.server
       /\ rev.to_tool = rev.spec.bare_name

\* C21: call_tool_by_fullname raises, and sends no request to any backend,
\* for a name without the "__" delimiter and for a name whose prefix is not
\* a connected backend.
C21_RejectedBeforeInvoke ==
    (/\ rev.op = "call_tool_by_fullname"
     /\ \/ ~HasDelimiter(rev.fullname)
        \/ ~C17_Connected(clients, gmail_http_client, ServerOf(rev.fullname)))
    => (rev.raised /\ rev.invoked = NoName)

C21_Witness ==
    /\ rev.op = "call_tool_by_fullname"
    /\ rev.fullname = NotionSearch
    /\ clients = << <<"calendar">> >>
    /\ rev.raised
    /\ rev.invoked = NoName

\* C22: __aexit__ closes every connection the registry holds, the gmail
\* client included, even when the close of one of them raises, and leaves
\* no registered client.
C22_ShutdownClosesAll ==
    rev.op = "aexit" =>
       /\ rev.closed = rev.held
       /\ clients = << >>

C25_Removed(S, R) == {i \in 1..Len(S) : ~Has(R, S[i].user_id)}

\* C25: after a cycle of the sweep no session is left that has been idle
\* longer than session_timeout, and the thread of every session the cycle
\* removed is out of the active-thread set.
C25_SweepLeavesNoneExpired ==
    [][(is_running /\ sweep_due' # sweep_due) =>
          /\ \A i \in 1..Len(sessions') :
                now' - sessions'[i].last_activity <= session_timeout
          /\ \A i \in C25_Removed(sessions, sessions') :
                sessions[i].thread_id \notin active_threads']_vars

\* C26: is_expired(timeout) answers true exactly when the time since
\* last_activity is greater than timeout, for durations of a day or more too.
C26_ExpiredIffElapsed ==
    ev.op = "is_expired" =>
       ev.result = (now - Lookup(sessions, ev.user).last_activity > ev.timeout)

\* C27: is_conversation_expired(timeout) answers true exactly when the
\* conversation is active and the time since last_activity is greater than
\* timeout; false for an inactive conversation and for no session.
C27_ConversationExpiredIff ==
    ev.op = "is_conversation_expired" =>
       ev.result = (/\ Has(sessions, ev.user)
                    /\ Lookup(sessions, ev.user).conversation_active
                    /\ now - Lookup(sessions, ev.user).last_activity > ev.timeout)

\* C28: a call of check_rate_limit made after the stored boundary has passed
\* is admitted, leaves the counter at 1 and sets the boundary to the time of
\* the call plus the window.
C28_WindowRestarts ==
    [][(/\ ev'.op = "check_rate_limit"
        /\ Has(sessions, ev'.user)
        /\ now > Lookup(sessions, ev'.user).rate_limit_reset)
       => /\ ev'.result
          /\ Lookup(sessions', ev'.user).rate_limit_count = 1
          /\ Lookup(sessions', ev'.user).rate_limit_reset = now + rate_limit_window]_vars

C28_Witness ==
    /\ ev.op = "check_rate_limit"
    /\ ev.result
    /\ ev.had_session
    /\ now = MaxTime
    /\ Lookup(sessions, ev.user).rate_limit_count = 1
    /\ Lookup(sessions, ev.user).rate_limit_reset = now + rate_limit_window

\* C29: a message turned away by the rate limit leaves the session's counter
\* and boundary as they were, creates no session and does not reach
\* get_or_create_session, and starts no turn of the assistant.
C29_RejectedConsumesNothing ==
    [][(ev'.op = "message" /\ ev'.reply = "rate_limited")
       => /\ Ids(sessions') = Ids(sessions)
          /\ Has(sessions, ev'.user)
          /\ LET before == Lookup(sessions, ev'.user)
                 after == Lookup(sessions', ev'.user)
             IN /\ after.rate_limit_count = before.rate_limit_count
                /\ after.rate_limit_reset = before.rate_limit_reset
                /\ after.channel_id = before.channel_id
                /\ after.is_dm = before.is_dm
          /\ ~ev'.admitted
          /\ pending' = pending
          /\ UNCHANGED loopvars]_vars

C29_Witness ==
    /\ ev.op = "message"
    /\ ev.reply = "rate_limited"
    /\ ev.channel # Lookup(sessions, ev.user).channel_id
    /\ Lookup(sessions, ev.user).rate_limit_count = rate_limit_requests
    /\ pending = << >>

C30_Fresh(s) ==
    /\ s.conversation_history = << >>
    /\ ~s.conversation_active
    /\ s.conversation_started_at = NoTime
    /\ s.rate_limit_count = 0
    /\ s.thread_id = None

\* C30: the session made for an identity that has none, its earlier one
\* having been evicted, is a fresh one: no history, no active conversation,
\* a counter of 0 and no thread.
C30_FreshAfterEviction ==
    [][\A u \in Users :
          (~Has(sessions, u) /\ Has(sessions', u)) => C30_Fresh(Lookup(sessions', u))]_vars

C30_Witness ==
    /\ ev.op = "get_or_create"
    /\ ev.user = "u1"
    /\ ev.created
    /\ turns["u1"].count = rate_limit_requests
    /\ active_threads = {}
    /\ C30_Fresh(Lookup(sessions, "u1"))
    /\ Len(sessions) = max_sessions

\* C23: the pool never holds more than max_instances services, whatever
\* calls of get_service and whatever cycle of the sweep are under way.
C23_PoolWithinMaxInstances == Len(services) <= max_instances

\* C24: a call of get_service that found the pool full removes the service
\* used longest ago, after that service's cleanup, without an error, and goes
\* on to return the service of the new identity.
C24_EvictsOldestThenReturns ==
    pev.op = "cleanup_returned" =>
       /\ ~pev.raised
       /\ pev.victim = pev.oldest

\* C31: get_or_create_session for an identity that has a session keeps that
\* session, history included, with the requested channel and the activity
\* time refreshed; no session is added or removed, also on a full store.
C31_Step ==
    \A u \in Users, c \in StoreChannels :
        (Has(sessions, u) /\ GetOrCreateSession(u, c))
        => /\ Len(sessions') = Len(sessions)
           /\ Ids(sessions') = Ids(sessions)
           /\ active_threads' = active_threads
           /\ \A w \in Ids(sessions) \ {u} :
                 Lookup(sessions', w) = Lookup(sessions, w)
           /\ Lookup(sessions', u).channel_id = c
           /\ Lookup(sessions', u).last_activity = now
           /\ \E dm \in BOOLEAN :
                 Lookup(sessions', u) =
                     [Lookup(sessions, u) EXCEPT !.channel_id = c, !.is_dm = dm,
                                                 !.last_activity = now]

C31_ReusesSession == [][C31_Step]_vars

C31_Witness ==
    /\ ev.op = "get_or_create"
    /\ ~ev.created
    /\ Len(sessions) = max_sessions
    /\ Lookup(sessions, ev.user).conversation_history = ReuseHistory
    /\ Lookup(sessions, ev.user).last_activity = now
    /\ Lookup(sessions, ev.user).channel_id = DM
    /\ now > 0

\* C32: reset_conversation for an identity with a session empties the
\* history and answers true, the session staying stored with its
\* conversation flag, rate counter and window as they were; without a session
\* it answers false and nothing changes.
C32_Step ==
    ev'.op = "reset_conversation"
    => LET u == ev'.user
       IN IF Has(sessions, u)
          THEN /\ ev'.result
               /\ Ids(sessions') = Ids(sessions)
               /\ active_threads' = active_threads
               /\ Lookup(sessions', u).conversation_history = << >>
               /\ Lookup(sessions', u).conversation_active
                      = Lookup(sessions, u).conversation_active
               /\ Lookup(sessions', u).conversation_started_at
                      = Lookup(sessions, u).conversation_started_at
               /\ Lookup(sessions', u).rate_limit_count
                      = Lookup(sessions, u).rate_limit_count
               /\ Lookup(sessions', u).rate_limit_reset
                      = Lookup(sessions, u).rate_limit_reset
               /\ \A w \in Ids(sessions) \ {u} :
                     Lookup(sessions', w) = Lookup(sessions, w)
          ELSE /\ ~ev'.result
               /\ sessions' = sessions
               /\ active_threads' = active_threads

C32_ResetEmptiesHistoryOnly == [][C32_Step]_vars

C32_Witness ==
    /\ ev.op = "reset_conversation"
    /\ ev.result
    /\ ev.had_session
    /\ Lookup(sessions, ev.user).conversation_history = << >>
    /\ Lookup(sessions, ev.user).conversation_active
    /\ Lookup(sessions, ev.user).rate_limit_count = rate_limit_requests

C32_WitnessAbsent ==
    /\ ev.op = "reset_conversation"
    /\ ~ev.result
    /\ ~ev.had_session
    /\ Len(sessions) > 0

\* C33: stop() of the pool cancels the cleanup task, returns normally and
\* leaves the pool empty, the cleanup task having ended.
C33_StopReturnsWithEmptyPool ==
    pev.op = "stop" =>
       /\ ~pev.raised
       /\ services = << >>
       /\ last_used = << >>
       /\ pool_sweep.pc \in {"off", "done"}

C33_StoreStopLeavesEmpty ==
    ev.op = "stop" => (sessions = << >> /\ active_threads = {} /\ ~is_running)

C33_StoppedSweepRemovesNothing ==
    [][(~is_running /\ ~is_running') => sweep_due' = sweep_due]_vars

\* C34: nothing serializes the turns of one identity: while a handler slot is
\* free a turn can begin for any identity, also for one whose turn is in
\* flight, and it is passed the history the session holds then, so that two
\* turns in flight have read the same history.
C34_NotSerialized ==
    \A u \in TurnUsers :
        ((\E i \in 1..MaxHandlers : handlers[i].pc = "idle") /\ Len(lists) < 3 + MaxTurns)
        => ENABLED (\E i \in 1..MaxHandlers : TurnBegins(i, u))

C34_Witness ==
    \E i, j \in 1..MaxHandlers :
        /\ i # j
        /\ handlers[i].pc # "idle"
        /\ handlers[j].pc # "idle"
        /\ handlers[i].user = handlers[j].user
        /\ handlers[i].read = handlers[j].read
        /\ handlers[i].read # << >>
        /\ handlers[i].read = lists[session_history[handlers[i].user]]

\* C36: the history process_message returns is the history it was passed
\* followed by messages of its own turn only.
C36_ReturnedHistoryOwn ==
    tev.op = "returned" =>
       /\ IsPrefix(tev.read, tev.history)
       /\ \A k \in (Len(tev.read) + 1)..Len(tev.history) :
             tev.history[k].turn = tev.turn

\* C35: when process_message returns to a handler, the identity's session in
\* the store holds, after the handler's update_conversation_history, the
\* history the turn returned.
C35_Step ==
    \A i \in 1..MaxPending, h \in TurnHistories, t \in Threads \cup {None} :
        (i <= Len(pending) /\ Respond(i, h, t))
        => /\ Has(sessions', pending[i].user)
           /\ Lookup(sessions', pending[i].user).conversation_history = h

C35_HistoryWrittenBack == [][C35_Step]_vars

C37_Initializing(u) ==
    {i \in 1..MaxCalls : in_flight[i].pc = "initialize" /\ in_flight[i].user = u}

\* C37: for no identity are two services being initialized at once, and a
\* service that get_service stores replaces no service stored before it.
C37_OneBundlePerIdentity ==
    /\ \A u \in PoolUsers : Cardinality(C37_Initializing(u)) <= 1
    /\ (pev.op = "returned" /\ pev.created) =>
          \A i \in 1..MaxCalls : in_flight[i].pc = "initialize" => in_flight[i].user # pev.user

\* the services whose cleanup() has been called by an eviction or by the sweep
\* and has not returned
C38_InCleanup ==
    {in_flight[i].victim : i \in {k \in 1..MaxCalls : in_flight[k].pc = "cleanup"}}
    \cup (IF pool_sweep.pc = "cleanup" THEN {Head(pool_sweep.queue)} ELSE {})

\* C38: a service whose cleanup has begun is not in the pool's dict, where
\* get_service would find it, and no two cleanups of one service are under way.
C38_ReturnedBundlesLive ==
    /\ \A v \in C38_InCleanup : ~InServices(v)
    /\ \A i, j \in 1..MaxCalls :
          (i # j /\ in_flight[i].pc = "cleanup" /\ in_flight[j].pc = "cleanup")
          => in_flight[i].victim # in_flight[j].victim
    /\ \A i \in 1..MaxCalls :
          (in_flight[i].pc = "cleanup" /\ pool_sweep.pc = "cleanup")
          => in_flight[i].victim # Head(pool_sweep.queue)

\* the thread ids the stored sessions hold
C39_HeldThreads == {sessions[k].thread_id : k \in 1..Len(sessions)} \ {None}

\* C39: the set of active threads is the set of the thread ids held by the
\* stored sessions.
C39_ActiveThreadsAreHeld == active_threads = C39_HeldThreads

\* C40: a permission check that is the user's attempts_limit-th or later
\* within the window answers false, and the user is then listed as suspicious
\* and restricted.
C40_RapidChecksLimited ==
    (sev.op = "check" /\ sev.recent >= attempts_limit)
    => /\ ~sev.result
       /\ sev.user \in suspicious_activity
       /\ is_restricted(permissions[sev.user])

====
